---- MODULE Spec2Model ----
\* Budget plan-fact engine of finhub: the Budget model's derived metrics over
\* the transaction store, and the entry points (REST serializers, bot dialogs)
\* that write budgets and transactions.
\*
\* Representation:
\*   - a date is its ordinal, 1 = 2024-01-01 (date.toordinal() shifted);
\*     NoDate stands for None;
\*   - a Decimal(12, 2) amount is an integer number of currency units;
\*   - a Decimal / float quotient is the exact fraction <<num, den>> in lowest
\*     terms with den > 0 (the 28-digit Decimal context is not modelled);
\*   - the Budget table is the set of its rows, each row carrying its id;
\*   - the Transaction table is the bag of its rows without their ids: no
\*     operation reads a transaction's id except to find the row;
\*   - the GoalLedgerEntry table is the sequence of its rows in id order;
\*     occurred_at is kept to the day (TIME_ZONE is UTC);
\*   - a Decimal quantized to 0.01 is its integer number of hundredths.
EXTENDS Integers, Sequences, FiniteSets, Bags, TLC

\* ------------------------------------------------------------------ bounds

MaxTx == 2
MaxBudgets == 2
MaxWorkers == 2
MaxEntries == 2

\* ---------------------------------------------------------------- calendar

NoDate == 0
None == 0

IsLeap(y) == (y % 4 = 0) /\ ((y % 100 # 0) \/ (y % 400 = 0))

DaysInYear(y) == IF IsLeap(y) THEN 366 ELSE 365

DaysInMonth(y, m) ==
    IF m = 2 THEN (IF IsLeap(y) THEN 29 ELSE 28)
    ELSE IF m \in {4, 6, 9, 11} THEN 30 ELSE 31

RECURSIVE DaysBeforeYear(_)
DaysBeforeYear(y) ==
    IF y <= 2024 THEN 0 ELSE DaysBeforeYear(y - 1) + DaysInYear(y - 1)

RECURSIVE DaysBeforeMonth(_, _)
DaysBeforeMonth(y, m) ==
    IF m <= 1 THEN 0 ELSE DaysBeforeMonth(y, m - 1) + DaysInMonth(y, m - 1)

\* the ordinal of the day before the first of each month, tabulated once
DaysBeforeMonthStart ==
    [y \in 2024..2028 |-> [m \in 1..12 |-> DaysBeforeYear(y) + DaysBeforeMonth(y, m)]]

\* datetime(y, m, d).date()
MkDate(y, m, d) == DaysBeforeMonthStart[y][m] + d

\* the ordinals of the modelled years 2024..2027
Days == 1..DaysBeforeYear(2028)

\* date.year, tabulated once over Days
YearOfDay ==
    [o \in Days |->
        CHOOSE y \in 2024..2027 : DaysBeforeYear(y) < o /\ o <= DaysBeforeYear(y + 1)]

YearOf(o) == YearOfDay[o]

\* date.month, tabulated once over Days
MonthOfDay ==
    [o \in Days |->
        LET y == YearOfDay[o]
            r == o - DaysBeforeYear(y)
        IN  CHOOSE m \in 1..12 :
                DaysBeforeMonth(y, m) < r
                    /\ r <= DaysBeforeMonth(y, m) + DaysInMonth(y, m)]

MonthOf(o) == MonthOfDay[o]

DayOf(o) == o - DaysBeforeYear(YearOf(o)) - DaysBeforeMonth(YearOf(o), MonthOf(o))

\* date.replace(day=d)
ReplaceDay(o, d) == MkDate(YearOf(o), MonthOf(o), d)

\* the 28th, a day every month has
TwentyEighthOfMonth(y, m) == MkDate(y, m, 28)

\* the "last day of the month" idiom of Budget.save, create_monthly_budget and
\* the bot's budget dialog: first day of the next month minus one day
LastDayOfMonth(y, m) ==
    IF m = 12 THEN MkDate(y + 1, 1, 1) - 1 ELSE MkDate(y, m + 1, 1) - 1

\* ------------------------------------------------------------- fractions

Abs(x) == IF x < 0 THEN 0 - x ELSE x

RECURSIVE Gcd(_, _)
Gcd(a, b) == IF b = 0 THEN a ELSE Gcd(b, a % b)

\* n / d for d # 0, in lowest terms with a positive denominator
Frac(n, d) ==
    LET g == Gcd(Abs(n), Abs(d))
        s == IF d < 0 THEN 0 - 1 ELSE 1
    IN  <<(s * n) \div g, (s * d) \div g>>

\* ------------------------------------------------- users and categories

Users == {"u1", "u2"}

INCOME == "income"
EXPENSE == "expense"
MONTHLY == "monthly"
WEEKLY == "weekly"
YEARLY == "yearly"

\* The category registry (rows of Category); it is not written by the
\* operations modelled here.
Categories == {
    [id |-> 1, user |-> "u1", type |-> EXPENSE, is_active |-> TRUE],
    [id |-> 2, user |-> "u1", type |-> INCOME,  is_active |-> TRUE],
    [id |-> 3, user |-> "u2", type |-> EXPENSE, is_active |-> TRUE],
    [id |-> 4, user |-> "u1", type |-> EXPENSE, is_active |-> FALSE],
    [id |-> 5, user |-> "u1", type |-> EXPENSE, is_active |-> TRUE] }

CategoryIds == {c.id : c \in Categories}

Category(cid) == CHOOSE c \in Categories : c.id = cid

\* ------------------------------------------------------------------ state

VARIABLES
    transactions,   \* rows of Transaction (a bag)
    budgets,        \* rows of Budget
    nextBudgetId,   \* next primary key of Budget
    pending,        \* Budget instances built by requests and not yet saved, and
                    \* UserState rows loaded by callbacks in flight (a bag)
    user_data,      \* the bot's context.user_data and UserState row of each user
    today,          \* the clock: date.today()
    result,         \* outcome of the last operation
    goals,          \* rows of Goal
    nextGoalId,     \* next primary key of Goal
    ledger          \* rows of GoalLedgerEntry, in id order

vars == <<transactions, budgets, nextBudgetId, pending, user_data,
          today, result, goals, nextGoalId, ledger>>

\* ------------------------------------------------- Budget: derived metrics

\* SpentRows with date__lt in place of date__lte
SpentRowsEndExclusive(b) ==
    {t \in BagToSet(transactions) :
        /\ t.user = b.user
        /\ t.category = b.category
        /\ t.date >= b.start_date
        /\ t.date < b.end_date
        /\ t.amount < 0}

\* Transaction.objects.filter(user=, category=, date__gte=, date__lte=,
\* amount__lt=0): the rows Budget.spent_amount aggregates
SpentRows(b) ==
    {t \in BagToSet(transactions) :
        /\ t.user = b.user
        /\ t.category = b.category
        /\ t.date >= b.start_date
        /\ t.date <= b.end_date
        /\ t.amount < 0}

RECURSIVE SumAmount(_)
\* the sum of amount over the stored copies of the given rows
SumAmount(rows) ==
    IF rows = {} THEN 0
    ELSE LET t == CHOOSE x \in rows : TRUE
         IN  t.amount * CopiesIn(t, transactions) + SumAmount(rows \ {t})

\* .aggregate(total=models.Sum('amount'))['total']: <<>> is SQL NULL (None),
\* <<n>> the sum of a non-empty set of rows
AggregateSum(rows) == IF rows = {} THEN <<>> ELSE <<SumAmount(rows)>>

\* x or Decimal('0.00'): None and a zero Decimal are both falsy
OrZero(agg) == IF agg = <<>> THEN 0 ELSE IF agg[1] = 0 THEN 0 ELSE agg[1]

\* Budget.spent_amount
spent_amount(b) == Abs(OrZero(AggregateSum(SpentRows(b))))

\* Budget.remaining_amount
remaining_amount(b) == b.amount - spent_amount(b)

\* spent_percentage computed from the remaining amount
spent_percentage_of_remaining(b) ==
    IF b.amount = 0 THEN <<0, 1>>
    ELSE Frac(remaining_amount(b) * 100, b.amount)

\* Budget.spent_percentage, as a fraction
spent_percentage(b) ==
    IF b.amount = 0 THEN <<0, 1>>
    ELSE Frac(spent_amount(b) * 100, b.amount)

\* is_overspent with >= in place of >
is_overspent_ge(b) == spent_amount(b) >= b.amount

\* Budget.is_overspent
is_overspent(b) == spent_amount(b) > b.amount

\* days_remaining counting today among the days left
days_remaining_inclusive(b) ==
    IF b.start_date = NoDate \/ b.end_date = NoDate THEN 0
    ELSE IF today > b.end_date THEN 0
    ELSE (b.end_date - today) + 1

\* Budget.days_remaining
days_remaining(b) ==
    IF b.start_date = NoDate \/ b.end_date = NoDate THEN 0
    ELSE IF today > b.end_date THEN 0
    ELSE b.end_date - today

\* Budget.days_total
days_total(b) ==
    IF b.start_date = NoDate \/ b.end_date = NoDate THEN 0
    ELSE (b.end_date - b.start_date) + 1

\* the budgets a lookup that ignores is_active can return
get_current_budget_any_status(u, cid, date) ==
    LET qs == {b \in budgets :
                  /\ b.user = u /\ b.category = cid
                  /\ b.start_date <= date /\ b.end_date >= date}
    IN  {b \in qs : \A o \in qs : o.start_date <= b.start_date}

\* Budget.get_current_budget(user, category, date): the budgets .first()
\* can return under Meta.ordering = ['-start_date'], which leaves the order
\* of equal start dates open; the empty set is None
get_current_budget(u, cid, date) ==
    LET qs == {b \in budgets :
                  /\ b.user = u /\ b.category = cid
                  /\ b.start_date <= date /\ b.end_date >= date
                  /\ b.is_active}
    IN  {b \in qs : \A o \in qs : o.start_date <= b.start_date}

\* daily_budget_remaining dividing by the days left counting today
daily_budget_remaining_inclusive(b) ==
    IF days_remaining(b) <= 0 THEN <<0, 1>>
    ELSE Frac(remaining_amount(b), days_remaining(b) + 1)

\* Budget.daily_budget_remaining, as a fraction
daily_budget_remaining(b) ==
    IF days_remaining(b) <= 0 THEN <<0, 1>>
    ELSE Frac(remaining_amount(b), days_remaining(b))

\* ------------------------------------------------------ transaction store

OK == "ok"
NOT_FOUND == "not_found"
VALIDATION_ERROR == "validation_error"

TxRow(u, cid, amount, date) ==
    [user |-> u, category |-> cid, amount |-> amount, date |-> date]

\* Transaction.objects.acreate / ModelSerializer.create: a new row
InsertTransaction(u, cid, amount, date) ==
    /\ BagCardinality(transactions) < MaxTx
    /\ transactions' = transactions (+) SetToBag({TxRow(u, cid, amount, date)})

\* the stored row t replaced by the row new
ReplaceTransaction(t, new) ==
    transactions' = (transactions (-) SetToBag({t})) (+) SetToBag({new})

NoGoalWrite == UNCHANGED <<goals, nextGoalId, ledger>>
NoBudgetWrite == UNCHANGED <<budgets, nextBudgetId, pending, user_data>> /\ NoGoalWrite
NoTxWrite == UNCHANGED transactions /\ NoGoalWrite

\* TransactionCreateSerializer.create, reached from POST /transactions/
\* (get_serializer_class: action == 'create'): the category field is any
\* existing Category row, the amount keeps the sign the client sent
TransactionViewSetCreate(u, cid, amount, date) ==
    /\ cid \in CategoryIds
    /\ InsertTransaction(u, cid, amount, date)
    /\ result' = OK
    /\ NoBudgetWrite /\ UNCHANGED today

\* TransactionViewSet.quick_add: the same serializer
TransactionViewSetQuickAdd(u, cid, amount, date) ==
    /\ cid \in CategoryIds
    /\ InsertTransaction(u, cid, amount, date)
    /\ result' = OK
    /\ NoBudgetWrite /\ UNCHANGED today

\* TransactionSerializer.validate_category
TxValidateCategory(u, cid) ==
    Category(cid).user = u /\ Category(cid).is_active

\* PUT / PATCH /transactions/<id>/ through TransactionSerializer, t being the
\* row the id names: data maps the supplied fields (amount, category, date)
\* to their new values. get_queryset: the caller's rows only.
TransactionViewSetUpdate(u, t, data) ==
    /\ BagIn(t, transactions)
    /\ UNCHANGED today /\ NoBudgetWrite
    /\ IF t.user # u
       THEN /\ result' = NOT_FOUND
            /\ UNCHANGED transactions
       ELSE IF "category" \in DOMAIN data /\ ~TxValidateCategory(u, data.category)
       THEN /\ result' = VALIDATION_ERROR
            /\ UNCHANGED transactions
       ELSE /\ ReplaceTransaction(t,
                 [f \in DOMAIN t |-> IF f \in DOMAIN data THEN data[f] ELSE t[f]])
            /\ result' = OK

\* DELETE /transactions/<id>/
TransactionViewSetDestroy(u, t) ==
    /\ BagIn(t, transactions)
    /\ UNCHANGED today /\ NoBudgetWrite
    /\ IF t.user = u
       THEN /\ transactions' = transactions (-) SetToBag({t})
            /\ result' = OK
       ELSE /\ result' = NOT_FOUND
            /\ UNCHANGED transactions

\* TransactionService.create_transaction (transaction_date defaults to today)
create_transaction(u, amount, cid, transaction_type) ==
    LET signed == IF transaction_type = EXPENSE THEN 0 - Abs(amount) ELSE Abs(amount)
    IN  /\ InsertTransaction(u, cid, signed, today)
        /\ result' = OK
        /\ NoBudgetWrite /\ UNCHANGED today

\* TransactionService.update_transaction_date: aget(id=, user=self.user)
update_transaction_date(u, t, new_date) ==
    /\ BagIn(t, transactions)
    /\ UNCHANGED today /\ NoBudgetWrite
    /\ IF t.user = u
       THEN /\ ReplaceTransaction(t, [t EXCEPT !.date = new_date])
            /\ result' = OK
       ELSE /\ result' = NOT_FOUND
            /\ UNCHANGED transactions

\* TransactionService.delete_transaction: aget(id=, user=self.user)
delete_transaction(u, t) ==
    /\ BagIn(t, transactions)
    /\ UNCHANGED today /\ NoBudgetWrite
    /\ IF t.user = u
       THEN /\ transactions' = transactions (-) SetToBag({t})
            /\ result' = OK
       ELSE /\ result' = NOT_FOUND
            /\ UNCHANGED transactions

\* ----------------------------------------------------------- budget store

OVERLAP_ERROR == "overlap_error"
INTEGRITY_ERROR == "IntegrityError"
KEY_ERROR == "KeyError"
PENDING == "pending"
ERROR_MESSAGE == "error_message"
INVALID_AMOUNT == "invalid_amount"

BudgetById(id) == CHOOSE b \in budgets : b.id = id

NewBudget(u, cid, amount, period_type, start_date, end_date, is_active) ==
    [id |-> None, user |-> u, category |-> cid, amount |-> amount,
     period_type |-> period_type, start_date |-> start_date,
     end_date |-> end_date, is_active |-> is_active]

\* the unique constraint held among active rows only
UniqueViolationAmongActive(row) ==
    \E b \in budgets :
        /\ b.id # row.id
        /\ b.is_active /\ row.is_active
        /\ b.category = row.category
        /\ b.start_date = row.start_date
        /\ b.end_date = row.end_date
        /\ b.user = row.user

\* Budget.Meta.constraints: unique_budget_per_period over
\* (category, start_date, end_date, user); the row itself is not compared
UniqueViolation(row) ==
    \E b \in budgets :
        /\ b.id # row.id
        /\ b.category = row.category
        /\ b.start_date = row.start_date
        /\ b.end_date = row.end_date
        /\ b.user = row.user

\* Budget.save, first part: a monthly budget with no end_date gets the last
\* day of start_date's month
AutoEndDate(inst) ==
    IF inst.period_type = MONTHLY /\ inst.end_date = NoDate /\ inst.start_date # NoDate
    THEN [inst EXCEPT !.end_date =
             LastDayOfMonth(YearOf(inst.start_date), MonthOf(inst.start_date))]
    ELSE inst

\* Budget.save of a new instance (pk is None): the INSERT is refused by the
\* unique constraint; TRUE when the row can be written
CanInsert(inst) == ~UniqueViolation([AutoEndDate(inst) EXCEPT !.id = nextBudgetId])

\* Budget.objects.create(...): result r_ok when written, r_fail otherwise
CreateBudget(inst, r_ok, r_fail) ==
    /\ CanInsert(inst) => nextBudgetId <= MaxBudgets
    /\ IF CanInsert(inst)
       THEN /\ budgets' = budgets \cup {[AutoEndDate(inst) EXCEPT !.id = nextBudgetId]}
            /\ nextBudgetId' = nextBudgetId + 1
            /\ result' = r_ok
       ELSE /\ UNCHANGED <<budgets, nextBudgetId>>
            /\ result' = r_fail

\* Budget.save of a stored instance: the UPDATE, refused by the unique
\* constraint
UpdateBudget(row, r_ok, r_fail) ==
    /\ UNCHANGED nextBudgetId
    /\ IF UniqueViolation(row)
       THEN /\ UNCHANGED budgets
            /\ result' = r_fail
       ELSE /\ budgets' = (budgets \ {BudgetById(row.id)}) \cup {row}
            /\ result' = r_ok

\* Budget.create_monthly_budget(user, category, amount, year, month)
create_monthly_budget(u, cid, amount, year, month) ==
    LET start_date == MkDate(year, month, 1)
        end_date == LastDayOfMonth(year, month)
    IN  /\ CreateBudget(NewBudget(u, cid, amount, MONTHLY, start_date, end_date, TRUE),
                        OK, INTEGRITY_ERROR)
        /\ NoTxWrite /\ UNCHANGED <<pending, user_data, today>>

\* BudgetSerializer.validate_category
validate_category(u, cid) ==
    /\ Category(cid).user = u
    /\ Category(cid).type = EXPENSE
    /\ Category(cid).is_active

\* BudgetSerializer.validate, the overlap query: the active budgets of the
\* user and category, other than the instance being updated, whose window
\* meets [start_date, end_date]
Overlapping(u, cid, start_date, end_date, instance_id) ==
    {b \in budgets :
        /\ b.user = u
        /\ b.category = cid
        /\ b.is_active
        /\ b.id # instance_id
        /\ b.start_date <= end_date
        /\ b.end_date >= start_date}

\* data.get('end_date') or start_date
EndDateOrStart(data) ==
    IF "end_date" \in DOMAIN data /\ data.end_date # NoDate
    THEN data.end_date ELSE data.start_date

\* BudgetSerializer.validate(data) for the instance with pk instance_id (None
\* on create): the outcome of the object-level validation
validate(u, data, instance_id) ==
    IF "category" \notin DOMAIN data \/ "start_date" \notin DOMAIN data
    THEN KEY_ERROR
    ELSE IF Overlapping(u, data.category, data.start_date,
                        EndDateOrStart(data), instance_id) # {}
    THEN OVERLAP_ERROR
    ELSE OK

\* serializer.is_valid(): the field validators, then validate()
is_valid(u, data, instance_id) ==
    IF "category" \in DOMAIN data /\ ~validate_category(u, data.category)
    THEN VALIDATION_ERROR
    ELSE validate(u, data, instance_id)

FieldOr(data, f, default) == IF f \in DOMAIN data THEN data[f] ELSE default

\* a worker is free to take one more request
WorkerFree == BagCardinality(pending) < MaxWorkers

\* POST /budgets/ up to serializer.save(): BudgetSerializer validates the
\* request; a valid request leaves the instance to be saved
BudgetViewSetCreate(u, data) ==
    /\ WorkerFree
    /\ {"category", "amount", "start_date", "end_date"} \subseteq DOMAIN data
    /\ NoTxWrite /\ UNCHANGED <<budgets, nextBudgetId, user_data, today>>
    /\ LET v == is_valid(u, data, None)
       IN  IF v = OK
           THEN /\ pending' = pending (+) SetToBag(
                      {NewBudget(u, data.category, data.amount,
                                 FieldOr(data, "period_type", MONTHLY),
                                 data.start_date, data.end_date,
                                 FieldOr(data, "is_active", TRUE))})
                /\ result' = PENDING
           ELSE /\ UNCHANGED pending
                /\ result' = v

\* POST /budgets/quick_create/ up to budget.save(): BudgetCreateSerializer
\* has no validate_category and no validate; create() builds the instance
\* with no end_date
BudgetViewSetQuickCreate(u, cid, amount, start_date) ==
    /\ WorkerFree
    /\ cid \in CategoryIds
    /\ NoTxWrite /\ UNCHANGED <<budgets, nextBudgetId, user_data, today>>
    /\ pending' = pending (+) SetToBag(
          {NewBudget(u, cid, amount, MONTHLY, start_date, NoDate, TRUE)})
    /\ result' = PENDING

\* Budget.save() of the instance inst a request built: the end of
\* BudgetSerializer.create and of BudgetCreateSerializer.create. An
\* IntegrityError is not caught by the serializers or the views.
BudgetSave(inst) ==
    /\ BagIn(inst, pending)
    /\ CreateBudget(inst, OK, INTEGRITY_ERROR)
    /\ pending' = pending (-) SetToBag({inst})
    /\ NoTxWrite /\ UNCHANGED <<user_data, today>>

\* PUT / PATCH /budgets/<id>/ through BudgetSerializer: data maps the
\* supplied fields to their new values (PATCH: any subset)
BudgetViewSetUpdate(u, id, data) ==
    /\ NoTxWrite /\ UNCHANGED <<pending, user_data, today>>
    /\ IF ~(\E b \in budgets : b.id = id /\ b.user = u)
       THEN /\ result' = NOT_FOUND
            /\ UNCHANGED <<budgets, nextBudgetId>>
       ELSE LET v == is_valid(u, data, id)
                b == BudgetById(id)
                new == [f \in DOMAIN b |-> IF f \in DOMAIN data THEN data[f] ELSE b[f]]
            IN  IF v # OK
                THEN /\ result' = v
                     /\ UNCHANGED <<budgets, nextBudgetId>>
                ELSE UpdateBudget(new, OK, INTEGRITY_ERROR)

\* DELETE /budgets/<id>/
BudgetViewSetDestroy(u, id) ==
    /\ NoTxWrite /\ UNCHANGED <<nextBudgetId, pending, user_data, today>>
    /\ IF \E b \in budgets : b.id = id /\ b.user = u
       THEN /\ budgets' = budgets \ {BudgetById(id)}
            /\ result' = OK
       ELSE /\ result' = NOT_FOUND
            /\ UNCHANGED budgets

\* ------------------------------------------------------------ bot dialogs

\* the bot's state of one user: context.user_data (an absent key is None /
\* FALSE) and the fields of the user's UserState row with their defaults
EmptyUserData ==
    [waiting_for_budget_amount |-> FALSE, budget_category_id |-> None,
     editing_budget_id |-> None, limit_creation |-> None,
     current_amount |-> None, awaiting_category |-> FALSE,
     last_transaction_type |-> EXPENSE]

SetUserData(u, d) == user_data' = [user_data EXCEPT ![u] = d]

\* BudgetHandler.handle_budget_add_for_category
handle_budget_add_for_category(u, category_id) ==
    /\ NoTxWrite /\ UNCHANGED <<budgets, nextBudgetId, pending, today>>
    /\ IF \E c \in Categories :
              /\ c.id = category_id /\ c.user = u
              /\ c.type = EXPENSE /\ c.is_active
       THEN /\ SetUserData(u, [user_data[u] EXCEPT
                    !.budget_category_id = category_id,
                    !.waiting_for_budget_amount = TRUE])
            /\ result' = OK
       ELSE /\ UNCHANGED user_data
            /\ result' = NOT_FOUND

\* BudgetHandler.handle_budget_edit
handle_budget_edit(u, budget_id) ==
    /\ NoTxWrite /\ UNCHANGED <<budgets, nextBudgetId, pending, today>>
    /\ IF \E b \in budgets : b.id = budget_id /\ b.user = u /\ b.is_active
       THEN /\ SetUserData(u, [user_data[u] EXCEPT
                    !.editing_budget_id = budget_id,
                    !.waiting_for_budget_amount = TRUE])
            /\ result' = OK
       ELSE /\ UNCHANGED user_data
            /\ result' = NOT_FOUND

\* SettingsHandler.handle_limit_add_for_category:
\* CategoryManagementService.get_category_by_id looks up (id, user) only
handle_limit_add_for_category(u, category_id) ==
    /\ NoTxWrite /\ UNCHANGED <<budgets, nextBudgetId, pending, today>>
    /\ IF \E c \in Categories : c.id = category_id /\ c.user = u
       THEN /\ SetUserData(u, [user_data[u] EXCEPT !.limit_creation = category_id])
            /\ result' = OK
       ELSE /\ UNCHANGED user_data
            /\ result' = NOT_FOUND

\* TextHandler._handle_limit_amount_input; amount <= 0 stands for every text
\* that float() refuses or that is not positive
_handle_limit_amount_input(u, amount) ==
    /\ NoTxWrite /\ UNCHANGED <<pending, today>>
    /\ IF amount <= 0
       THEN /\ result' = INVALID_AMOUNT
            /\ UNCHANGED <<budgets, nextBudgetId, user_data>>
       ELSE LET category_id == user_data[u].limit_creation
                inst == NewBudget(u, category_id, amount, MONTHLY,
                                  ReplaceDay(today, 1), ReplaceDay(today, 28), TRUE)
            IN  IF ~(\E c \in Categories : c.id = category_id /\ c.user = u)
                THEN /\ result' = NOT_FOUND
                     /\ UNCHANGED <<budgets, nextBudgetId, user_data>>
                ELSE /\ CreateBudget(inst, OK, ERROR_MESSAGE)
                     /\ IF CanInsert(inst)
                        THEN SetUserData(u, [user_data[u] EXCEPT !.limit_creation = None])
                        ELSE UNCHANGED user_data

\* TextHandler._handle_budget_amount_input
_handle_budget_amount_input(u, amount) ==
    LET ud == user_data[u]
        editing_budget_id == ud.editing_budget_id
        category_id == ud.budget_category_id
        cleared == [ud EXCEPT !.waiting_for_budget_amount = FALSE,
                              !.budget_category_id = None]
    IN
    /\ NoTxWrite /\ UNCHANGED <<pending, today>>
    /\ IF amount <= 0
       THEN /\ result' = INVALID_AMOUNT
            /\ UNCHANGED <<budgets, nextBudgetId, user_data>>
       ELSE IF editing_budget_id # None
       THEN IF \E b \in budgets : b.id = editing_budget_id /\ b.user = u /\ b.is_active
            THEN /\ UpdateBudget([BudgetById(editing_budget_id) EXCEPT !.amount = amount],
                                 OK, ERROR_MESSAGE)
                 /\ SetUserData(u, [cleared EXCEPT !.editing_budget_id = None])
            ELSE /\ result' = NOT_FOUND
                 /\ UNCHANGED <<budgets, nextBudgetId, user_data>>
       ELSE IF category_id = None
       THEN /\ result' = NOT_FOUND
            /\ UNCHANGED <<budgets, nextBudgetId, user_data>>
       ELSE IF ~(\E c \in Categories : c.id = category_id /\ c.user = u)
       THEN /\ result' = NOT_FOUND
            /\ UNCHANGED <<budgets, nextBudgetId, user_data>>
       ELSE LET start_date == MkDate(YearOf(today), MonthOf(today), 1)
                end_date == LastDayOfMonth(YearOf(today), MonthOf(today))
                existing == {b \in budgets :
                                /\ b.user = u /\ b.category = category_id
                                /\ b.start_date = start_date /\ b.end_date = end_date
                                /\ b.is_active}
                inst == NewBudget(u, category_id, amount, MONTHLY,
                                  start_date, end_date, TRUE)
            IN  IF existing # {}
                THEN /\ UpdateBudget([(CHOOSE b \in existing : TRUE) EXCEPT !.amount = amount],
                                     OK, ERROR_MESSAGE)
                     /\ SetUserData(u, cleared)
                ELSE /\ CreateBudget(inst, OK, ERROR_MESSAGE)
                     /\ IF CanInsert(inst)
                        THEN SetUserData(u, cleared)
                        ELSE UNCHANGED user_data

\* TextHandler.handle_text_message, the dialog dispatch: a pending limit
\* dialog takes the text before a pending budget dialog does
handle_text_message(u, amount) ==
    IF user_data[u].limit_creation # None
    THEN _handle_limit_amount_input(u, amount)
    ELSE /\ user_data[u].waiting_for_budget_amount
         /\ _handle_budget_amount_input(u, amount)

\* BudgetHandler.handle_budget_delete_execution
handle_budget_delete_execution(u, budget_id) ==
    /\ NoTxWrite /\ UNCHANGED <<nextBudgetId, pending, user_data, today>>
    /\ IF \E b \in budgets : b.id = budget_id /\ b.user = u /\ b.is_active
       THEN /\ budgets' = budgets \ {BudgetById(budget_id)}
            /\ result' = OK
       ELSE /\ result' = NOT_FOUND
            /\ UNCHANGED budgets

\* Application.builder().token(token).build(): concurrent_updates is left
\* off, so an update is dispatched when the handler of the one before it
\* has returned. DispatchedConcurrently is the dispatch with
\* concurrent_updates on: an update starts while handlers are in flight.
DispatchedConcurrently == BagCardinality(pending) < MaxWorkers

Dispatched == pending = EmptyBag

\* TextHandler._handle_amount_only: the amount is saved in the UserState row
_handle_amount_only(u, amount) ==
    /\ Dispatched
    /\ SetUserData(u, [user_data[u] EXCEPT !.current_amount = amount,
                                           !.awaiting_category = TRUE])
    /\ result' = OK
    /\ NoTxWrite /\ UNCHANGED <<budgets, nextBudgetId, pending, today>>

\* CallbackHandler._handle_category_selection up to get_user_state: the
\* category is looked up by (id, user) and the UserState row is loaded
_handle_category_selection(u, category_id) ==
    /\ Dispatched
    /\ NoTxWrite /\ UNCHANGED <<budgets, nextBudgetId, user_data, today>>
    /\ IF \E c \in Categories : c.id = category_id /\ c.user = u
       THEN /\ pending' = pending (+) SetToBag(
                   {[user |-> u, category |-> category_id,
                     user_state |-> user_data[u]]})
            /\ result' = PENDING
       ELSE /\ UNCHANGED pending
            /\ result' = NOT_FOUND

\* _handle_category_selection from the test of the loaded row on:
\* create_transaction, then the loaded row is saved with the amount and the
\* flag cleared (asave writes every field of the loaded row)
CategorySelectionReturns(h) ==
    /\ BagIn(h, pending)
    /\ pending' = pending (-) SetToBag({h})
    /\ UNCHANGED <<budgets, nextBudgetId, today>> /\ NoGoalWrite
    /\ IF h.user_state.awaiting_category /\ h.user_state.current_amount # None
       THEN LET type == Category(h.category).type
                amount == h.user_state.current_amount
            IN  /\ InsertTransaction(h.user, h.category,
                        IF type = EXPENSE THEN 0 - Abs(amount) ELSE Abs(amount), today)
                /\ SetUserData(h.user,
                        [user_data[h.user] EXCEPT
                            !.last_transaction_type = type,
                            !.current_amount = None,
                            !.awaiting_category = FALSE])
                /\ result' = OK
       ELSE /\ UNCHANGED <<transactions, user_data>>
            /\ result' = ERROR_MESSAGE

\* ------------------------------------------------------------------ goals

DEPOSIT == "deposit"
WITHDRAW == "withdraw"

\* the first argument whatever the second
Unclamped(a, b) == a

Max(a, b) == IF a >= b THEN a ELSE b

\* (n / d).quantize(Decimal('0.01')) for n >= 0 and d > 0, in hundredths:
\* the context's rounding is ROUND_HALF_EVEN
Quantize(n, d) ==
    LET q == (n * 100) \div d
        r == (n * 100) % d
    IN  IF 2 * r > d THEN q + 1
        ELSE IF 2 * r = d THEN q + (q % 2)
        ELSE q

\* GoalService.create_goal: Goal.objects.acreate, refused by
\* unique_goal_title_per_user
create_goal(u, title, target_amount, deadline) ==
    /\ UNCHANGED <<transactions, budgets, nextBudgetId, pending, user_data,
                   today, ledger>>
    /\ IF \E g \in goals : g.user = u /\ g.title = title
       THEN /\ result' = INTEGRITY_ERROR
            /\ UNCHANGED <<goals, nextGoalId>>
       ELSE /\ goals' = goals \cup {[id |-> nextGoalId, user |-> u, title |-> title,
                                     target_amount |-> target_amount,
                                     deadline |-> deadline]}
            /\ nextGoalId' = nextGoalId + 1
            /\ result' = OK

\* a lookup by id alone
get_goal_of_any_user(u, goal_id) == {g \in goals : g.id = goal_id}

\* GoalService.get_goal: the goals with the id owned by the service's user
\* (empty: None)
get_goal(u, goal_id) == {g \in goals : g.id = goal_id /\ g.user = u}

\* GoalLedgerEntry.objects.acreate(goal=, amount=, entry_type=): occurred_at
\* defaults to timezone.now
AppendEntry(goal_id, amount, entry_type) ==
    /\ Len(ledger) < MaxEntries
    /\ ledger' = Append(ledger, [goal |-> goal_id, amount |-> amount,
                                 entry_type |-> entry_type, occurred_at |-> today])

\* a deposit that stores the amount with the sign it was given
add_deposit_signed(u, goal_id, amount) ==
    /\ UNCHANGED <<transactions, budgets, nextBudgetId, pending, user_data,
                   today, goals, nextGoalId>>
    /\ IF get_goal(u, goal_id) = {}
       THEN /\ result' = NOT_FOUND
            /\ UNCHANGED ledger
       ELSE /\ AppendEntry(goal_id, amount, DEPOSIT)
            /\ result' = OK

\* GoalService.add_deposit
add_deposit(u, goal_id, amount) ==
    /\ UNCHANGED <<transactions, budgets, nextBudgetId, pending, user_data,
                   today, goals, nextGoalId>>
    /\ IF get_goal(u, goal_id) = {}
       THEN /\ result' = NOT_FOUND
            /\ UNCHANGED ledger
       ELSE /\ AppendEntry(goal_id, Abs(amount), DEPOSIT)
            /\ result' = OK

\* GoalService.add_withdraw
add_withdraw(u, goal_id, amount) ==
    /\ UNCHANGED <<transactions, budgets, nextBudgetId, pending, user_data,
                   today, goals, nextGoalId>>
    /\ IF get_goal(u, goal_id) = {}
       THEN /\ result' = NOT_FOUND
            /\ UNCHANGED ledger
       ELSE /\ AppendEntry(goal_id, 0 - Abs(amount), WITHDRAW)
            /\ result' = OK

\* the owner of the goal an entry belongs to (goal__user)
GoalUser(goal_id) == (CHOOSE g \in goals : g.id = goal_id).user

RECURSIVE SumEntries(_, _)
\* Coalesce(Sum('amount'), 0) over the entries at the positions idx
SumEntries(l, idx) ==
    IF idx = {} THEN 0
    ELSE LET i == CHOOSE x \in idx : TRUE
         IN  l[i].amount + SumEntries(l, idx \ {i})

\* a balance that never shows less than zero
get_goal_balance_clamped(u, goal_id) ==
    Max(SumEntries(ledger, {i \in 1..Len(ledger) :
                              ledger[i].goal = goal_id /\ GoalUser(ledger[i].goal) = u}),
        0)

\* GoalService.get_goal_balance
get_goal_balance(u, goal_id) ==
    SumEntries(ledger, {i \in 1..Len(ledger) :
                          ledger[i].goal = goal_id /\ GoalUser(ledger[i].goal) = u})

\* a month range whose December ends at the first of January of the same year
_month_range_without_rollover(target) ==
    LET y == YearOf(target)
        m == MonthOf(target)
    IN  <<MkDate(y, m, 1), MkDate(y, IF m = 12 THEN 1 ELSE m + 1, 1)>>

\* GoalService._month_range: <<first day, first day of the next month>>
_month_range(target) ==
    LET y == YearOf(target)
        m == MonthOf(target)
    IN  <<MkDate(y, m, 1),
          IF m = 12 THEN MkDate(y + 1, 1, 1) ELSE MkDate(y, m + 1, 1)>>

\* the months between the two dates, the month of from_month left out
_months_exclusive(from_month, to_month) ==
    (YearOf(to_month) - YearOf(from_month)) * 12
        + (MonthOf(to_month) - MonthOf(from_month))

\* GoalService._months_inclusive
_months_inclusive(from_month, to_month) ==
    (YearOf(to_month) - YearOf(from_month)) * 12
        + (MonthOf(to_month) - MonthOf(from_month)) + 1

\* free funds with the goal reservations left out
get_free_funds_without_goals(u, month) ==
    LET start == _month_range(month)[1]
        end == _month_range(month)[2]
        tx_qs == {t \in BagToSet(transactions) :
                     t.user = u /\ t.date >= start /\ t.date < end}
    IN  SumAmount({t \in tx_qs : t.amount > 0})
            - Abs(SumAmount({t \in tx_qs : t.amount < 0}))

\* GoalService.get_free_funds_for_month
get_free_funds_for_month(u, month) ==
    LET start == _month_range(month)[1]
        end == _month_range(month)[2]
        tx_qs == {t \in BagToSet(transactions) :
                     t.user = u /\ t.date >= start /\ t.date < end}
        income_total == SumAmount({t \in tx_qs : t.amount > 0})
        expense_total == SumAmount({t \in tx_qs : t.amount < 0})
        expenses_abs == Abs(expense_total)
        allocations_net ==
            SumEntries(ledger, {i \in 1..Len(ledger) :
                                  /\ GoalUser(ledger[i].goal) = u
                                  /\ ledger[i].occurred_at >= start
                                  /\ ledger[i].occurred_at < end})
    IN  income_total - expenses_abs - allocations_net

\* GoalService.get_goal_month_metrics
get_goal_month_metrics(goal_id, month) ==
    LET start == _month_range(month)[1]
        end == _month_range(month)[2]
        qs == {i \in 1..Len(ledger) :
                  /\ ledger[i].goal = goal_id
                  /\ ledger[i].occurred_at >= start
                  /\ ledger[i].occurred_at < end}
        deposits == SumEntries(ledger, {i \in qs : ledger[i].amount > 0})
        withdraws == SumEntries(ledger, {i \in qs : ledger[i].amount < 0})
    IN  [deposits |-> deposits, withdraws |-> withdraws, net |-> deposits + withdraws]

\* GoalService.get_goal_card_data for a goal the user owns; an Optional
\* field is <<>> for None and <<x>> otherwise; planned_per_month and
\* remaining_this_month are in hundredths, progress_pct is a fraction
get_goal_card_data(u, goal_id) ==
    LET goal == CHOOSE g \in get_goal(u, goal_id) : TRUE
        balance == Max(get_goal_balance(u, goal_id), 0)
        target == goal.target_amount
        remaining_total == Max(target - balance, 0)
        progress_pct == IF target > 0 THEN Frac(balance * 100, target) ELSE <<0, 1>>
        has_plan == goal.deadline # NoDate /\ goal.deadline >= today
        months_remaining ==
            IF has_plan THEN <<_months_inclusive(today, goal.deadline)>> ELSE <<>>
        planned_per_month ==
            IF has_plan /\ months_remaining[1] > 0
            THEN <<Quantize(remaining_total, months_remaining[1])>> ELSE <<>>
        deposited_this_month == get_goal_month_metrics(goal_id, today).deposits
        remaining_this_month ==
            IF planned_per_month # <<>>
            THEN <<Max(planned_per_month[1] - deposited_this_month * 100, 0)>>
            ELSE <<>>
    IN  [balance |-> balance, target |-> target,
         remaining_total |-> remaining_total, progress_pct |-> progress_pct,
         months_remaining |-> months_remaining,
         planned_per_month |-> planned_per_month,
         deposited_this_month |-> deposited_this_month,
         withdrawn_this_month |-> Abs(get_goal_month_metrics(goal_id, today).withdraws),
         remaining_this_month |-> remaining_this_month,
         free_funds_this_month |-> get_free_funds_for_month(u, today)]

\* ------------------------------------------- underuse recommendations

\* the defaults of get_budget_underuse_recommendations: months, min_rubles
\* and min_percent (in hundredths)
months_default == 3
min_rubles == 1000
min_percent == 5

\* the loop that collects the first days of the months before cursor's,
\* nearest first
RECURSIVE months_list(_, _)
months_list(cursor, months) ==
    IF months = 0 THEN <<>>
    ELSE LET previous ==
                 IF MonthOf(cursor) = 1 THEN MkDate(YearOf(cursor) - 1, 12, 1)
                 ELSE MkDate(YearOf(cursor), MonthOf(cursor) - 1, 1)
         IN  <<previous>> \o months_list(previous, months - 1)

\* the element at 0-based position k of sorted(values)
NthSmallest(values, k) ==
    CHOOSE x \in {values[i] : i \in DOMAIN values} :
        /\ Cardinality({i \in DOMAIN values : values[i] < x}) <= k
        /\ Cardinality({i \in DOMAIN values : values[i] <= x}) > k

RECURSIVE SumSeq(_)
SumSeq(values) ==
    IF values = <<>> THEN 0 ELSE values[1] + SumSeq(Tail(values))

\* the mean of the values, in hundredths
mean(values) == Quantize(SumSeq(values), Len(values))

\* Decimal(str(median(values))).quantize(Decimal('0.01')), in hundredths
median(values) ==
    Quantize(NthSmallest(values, (Len(values) - 1) \div 2)
                 + NthSmallest(values, Len(values) \div 2), 2)

\* every month counts, whatever the others left
SustainedOnAverage(underuses) == SumSeq(underuses) > 0

\* not any(u <= 0 for u in underuses)
Sustained(underuses) == \A i \in DOMAIN underuses : underuses[i] > 0

\* items_by_start for the listed months: one budget of items per month;
\* when several budgets of items start on one day the dict keeps the last
\* in query order, which the ordering by -start_date leaves open
ItemsByStart(items, listed) ==
    {f \in [DOMAIN listed -> items] :
        \A i \in DOMAIN listed : f[i].start_date = listed[i]}

\* the loop body for one category and one items_by_start: <<>> when the
\* category is skipped, <<suggested_amount>> (in hundredths) otherwise
Suggestion(by_start) ==
    LET underuses == [i \in DOMAIN by_start |->
                         Max(0, by_start[i].amount - spent_amount(by_start[i]))]
        budget_amounts == [i \in DOMAIN by_start |-> by_start[i].amount]
        u_median == median(underuses)
        b_avg == Quantize(SumSeq(budget_amounts), Len(budget_amounts))
    IN  IF ~Sustained(underuses) THEN <<>>
        ELSE IF u_median < min_rubles * 100 THEN <<>>
        ELSE IF b_avg > 0 /\ u_median * 100 < min_percent * b_avg THEN <<>>
        ELSE <<u_median>>

\* the lists that hold every result once, in any order
Unsorted(results) ==
    {l \in [1..Cardinality(results) -> results] :
        \A i, j \in DOMAIN l : i # j => l[i] # l[j]}

\* results.sort(key=suggested_amount, reverse=True): the lists that hold
\* every result once, largest first; equal amounts keep the order the query
\* returned their categories in, which its ordering leaves open
SortedDescending(results) ==
    {l \in [1..Cardinality(results) -> results] :
        /\ \A i, j \in DOMAIN l : i # j => l[i] # l[j]
        /\ \A i, j \in DOMAIN l :
              i < j => l[i].suggested_amount >= l[j].suggested_amount}

\* results[:3]
TopThree(l) == IF Len(l) <= 3 THEN l ELSE SubSeq(l, 1, 3)

\* GoalService.get_budget_underuse_recommendations: the result lists the
\* call can return
get_budget_underuse_recommendations(u, months) ==
    LET listed == months_list(MkDate(YearOf(today), MonthOf(today), 1), months)
        qs == {b \in budgets :
                  /\ b.user = u /\ b.is_active /\ b.period_type = MONTHLY
                  /\ \E i \in DOMAIN listed : b.start_date = listed[i]}
        by_category == [cid \in {b.category : b \in qs} |->
                           {b \in qs : b.category = cid}]
        outcomes == [cid \in DOMAIN by_category |->
                        IF Cardinality(by_category[cid]) < months
                               \/ ItemsByStart(by_category[cid], listed) = {}
                        THEN {<<>>}
                        ELSE {Suggestion(f) : f \in ItemsByStart(by_category[cid], listed)}]
    IN  UNION {{TopThree(l) :
                   l \in SortedDescending(
                            {[category |-> cid, suggested_amount |-> pick[cid][1]] :
                                cid \in {c \in DOMAIN pick : pick[c] # <<>>}})} :
                  pick \in {p \in [DOMAIN outcomes ->
                                      UNION {outcomes[c] : c \in DOMAIN outcomes}] :
                               \A cid \in DOMAIN outcomes : p[cid] \in outcomes[cid]}}

\* ---------------------------------------------------------------- queries

\* the read-only query functions, by name
QueryNames ==
    {"spent_amount", "remaining_amount", "spent_percentage", "is_overspent",
     "days_total", "get_current_budget", "get_goal_balance",
     "get_free_funds_for_month", "get_goal_card_data",
     "get_budget_underuse_recommendations"}

\* what the query returns, for each of its arguments, with today as the
\* reference date
QueryValue(q) ==
    CASE q = "spent_amount" -> [b \in budgets |-> spent_amount(b)]
      [] q = "remaining_amount" -> [b \in budgets |-> remaining_amount(b)]
      [] q = "spent_percentage" -> [b \in budgets |-> spent_percentage(b)]
      [] q = "is_overspent" -> [b \in budgets |-> is_overspent(b)]
      [] q = "days_total" -> [b \in budgets |-> days_total(b)]
      [] q = "get_current_budget" ->
             [a \in Users \X CategoryIds |-> get_current_budget(a[1], a[2], today)]
      [] q = "get_goal_balance" -> [g \in goals |-> get_goal_balance(g.user, g.id)]
      [] q = "get_free_funds_for_month" ->
             [u \in Users |-> get_free_funds_for_month(u, today)]
      [] q = "get_goal_card_data" -> [g \in goals |-> get_goal_card_data(g.user, g.id)]
      [] q = "get_budget_underuse_recommendations" ->
             [u \in Users |-> get_budget_underuse_recommendations(u, months_default)]

\* a query that also retires the budgets whose period has ended
CallQueryRetiringBudgets(q) ==
    /\ q \in QueryNames
    /\ result' = q
    /\ budgets' = {IF b.end_date < today THEN [b EXCEPT !.is_active = FALSE] ELSE b :
                      b \in budgets}
    /\ UNCHANGED <<transactions, nextBudgetId, pending, user_data, today,
                   goals, nextGoalId, ledger>>

\* a call of a query function: filter / aggregate reads and arithmetic, no
\* save, create, update or delete; result records which query ran
CallQuery(q) ==
    /\ q \in QueryNames
    /\ result' = q
    /\ UNCHANGED <<transactions, budgets, nextBudgetId, pending, user_data, today,
                   goals, nextGoalId, ledger>>

\* ------------------------------------------------------- specifications

Init ==
    /\ transactions = EmptyBag
    /\ budgets = {}
    /\ nextBudgetId = 1
    /\ pending = EmptyBag
    /\ user_data = [u \in Users |-> EmptyUserData]
    /\ result = OK
    /\ goals = {}
    /\ nextGoalId = 1
    /\ ledger = <<>>

\* Plan-fact metrics: the December 2024 budget of category 1 under every
\* transaction write. Transactions are written for the budget's user and
\* category, for another user in the same category and for the same user in
\* another category, on the days around the two ends of the period.
MetricClock == {MkDate(2024, 12, 1), MkDate(2024, 12, 31), MkDate(2025, 1, 1)}
MetricTxDates ==
    {MkDate(2024, 11, 30), MkDate(2024, 12, 1), MkDate(2024, 12, 31), MkDate(2025, 1, 1)}
MetricTxAmounts == {0 - 2, 1}
MetricTxOwners == {<<"u1", 1>>, <<"u2", 1>>, <<"u1", 2>>}
MetricBudgetAmounts == {0, 2}
MetricTxPatches ==
    {[amount |-> a] : a \in MetricTxAmounts}
        \cup {[date |-> d] : d \in MetricTxDates}
        \cup {[category |-> c] : c \in {1, 2}}

BudgetIds == 1..MaxBudgets

InitMetrics == Init /\ today \in MetricClock

\* PUT of the stored budget with a new amount
AmountPut(b, amount) ==
    [category |-> b.category, amount |-> amount,
     start_date |-> b.start_date, end_date |-> b.end_date]

NextMetrics ==
    \/ \E o \in MetricTxOwners, a \in MetricTxAmounts, d \in MetricTxDates :
          TransactionViewSetCreate(o[1], o[2], a, d)
    \/ \E o \in MetricTxOwners, a \in MetricTxAmounts, d \in MetricTxDates :
          TransactionViewSetQuickAdd(o[1], o[2], a, d)
    \/ \E u \in Users, t \in BagToSet(transactions), data \in MetricTxPatches :
          TransactionViewSetUpdate(u, t, data)
    \/ \E u \in Users, t \in BagToSet(transactions) : TransactionViewSetDestroy(u, t)
    \/ \E a \in MetricTxAmounts, cid \in {1, 2} :
          create_transaction("u1", a, cid, Category(cid).type)
    \/ \E u \in Users, t \in BagToSet(transactions), d \in MetricTxDates :
          update_transaction_date(u, t, d)
    \/ \E u \in Users, t \in BagToSet(transactions) : delete_transaction(u, t)
    \/ \E a \in MetricBudgetAmounts : create_monthly_budget("u1", 1, a, 2024, 12)
    \/ \E b \in budgets, a \in MetricBudgetAmounts :
          BudgetViewSetUpdate(b.user, b.id, AmountPut(b, a))

SpecMetrics == InitMetrics /\ [][NextMetrics]_vars

\* Budget writes: every entry point that writes the Budget table, for one
\* month. Up to MaxWorkers REST requests are in flight at once, each
\* between is_valid() and save(); the bot serves its updates one at a time.
\* On the clock's day the window of the limit dialog ends today, the window
\* of the budget dialog is still running and a one-day budget of the 15th is
\* over.
BudgetClock == {MkDate(2024, 12, 28)}
BudgetWindows ==
    {<<MkDate(2024, 12, 15), MkDate(2024, 12, 15)>>,
     <<MkDate(2024, 12, 31), MkDate(2024, 12, 31)>>,
     <<MkDate(2024, 12, 1), MkDate(2024, 12, 31)>>}

\* bodies of POST /budgets/: every required field; category 2 is refused
BudgetPosts ==
    {[category |-> 1, amount |-> 1, start_date |-> w[1], end_date |-> w[2]] :
        w \in BudgetWindows}
    \cup {[category |-> 2, amount |-> 1, start_date |-> MkDate(2024, 12, 1),
           end_date |-> MkDate(2024, 12, 31)]}

\* bodies of PUT /budgets/<id>/: the same, and is_active
BudgetPuts ==
    BudgetPosts
    \cup {[category |-> 1, amount |-> 1, start_date |-> MkDate(2024, 12, 1),
           end_date |-> MkDate(2024, 12, 31), is_active |-> FALSE]}

\* bodies of PATCH /budgets/<id>/: a subset of the fields
BudgetPatches ==
    {[amount |-> 2],
     [category |-> 1, start_date |-> MkDate(2024, 12, 1)]}

\* PUT and PATCH requests: the owner's, and another user's
UpdateRequests ==
    {<<"u1", data>> : data \in BudgetPuts \cup BudgetPatches}
        \cup {<<"u2", [amount |-> 2]>>}

InitBudgets == Init /\ today \in BudgetClock

NextBudgets ==
    \/ \E data \in BudgetPosts : BudgetViewSetCreate("u1", data)
    \/ BudgetViewSetQuickCreate("u1", 1, 1, MkDate(2024, 12, 1))
    \/ \E inst \in BagToSet(pending) : BudgetSave(inst)
    \/ \E r \in UpdateRequests, id \in BudgetIds : BudgetViewSetUpdate(r[1], id, r[2])
    \/ \E u \in Users, id \in BudgetIds : BudgetViewSetDestroy(u, id)
    \/ \E cid \in {1, 2} : handle_budget_add_for_category("u1", cid)
    \/ \E cid \in {1, 3} : handle_limit_add_for_category("u1", cid)
    \/ \E a \in {0, 1} : handle_text_message("u1", a)
    \/ \E id \in BudgetIds : handle_budget_delete_execution("u1", id)

SpecBudgets == InitBudgets /\ [][NextBudgets]_vars

\* Budget categories: the entry points that attach a budget to a category,
\* offered the caller's expense category, income category and deactivated
\* expense category, for the current month.
OwnCategoryIds == {1, 2, 4}

CategoryPost(cid) ==
    [category |-> cid, amount |-> 1, start_date |-> MkDate(2024, 12, 1),
     end_date |-> MkDate(2024, 12, 31)]

NextCategories ==
    \/ \E cid \in OwnCategoryIds : BudgetViewSetCreate("u1", CategoryPost(cid))
    \/ \E cid \in OwnCategoryIds :
          BudgetViewSetQuickCreate("u1", cid, 1, MkDate(2024, 12, 1))
    \/ \E inst \in BagToSet(pending) : BudgetSave(inst)
    \/ \E cid \in OwnCategoryIds, id \in BudgetIds :
          BudgetViewSetUpdate("u1", id, CategoryPost(cid))
    \/ \E cid \in OwnCategoryIds : handle_budget_add_for_category("u1", cid)
    \/ \E cid \in OwnCategoryIds : handle_limit_add_for_category("u1", cid)
    \/ handle_text_message("u1", 1)

SpecCategories == InitBudgets /\ [][NextCategories]_vars

\* Goals: two goals of u1 (12 to save by 2025-02-01; no target and no
\* deadline), deposits and withdraws by the owner and by another user, the
\* transactions and the budget of December 2024 beside them, on the last day
\* of 2024, on the deadline and on the day after it.
GoalClock == {MkDate(2024, 12, 31), MkDate(2025, 2, 1), MkDate(2025, 2, 2)}
GoalInputs ==
    {<<"car", 12, MkDate(2025, 2, 1)>>, <<"trip", 0, NoDate>>}
GoalIds == {1, 2}
GoalTxInputs ==
    {<<"u1", 1, 0 - 2, MkDate(2024, 12, 31)>>,
     <<"u1", 2, 5, MkDate(2025, 1, 1)>>,
     <<"u2", 3, 0 - 2, MkDate(2024, 12, 31)>>}

InitGoals == Init /\ today = MkDate(2024, 12, 31)

\* the clock moves on to the next day observed
DayPasses ==
    /\ \E d \in GoalClock :
          /\ d > today
          /\ \A e \in GoalClock : e > today => d <= e
          /\ today' = d
    /\ UNCHANGED <<transactions, budgets, nextBudgetId, pending, user_data,
                   result, goals, nextGoalId, ledger>>

NextGoals ==
    \/ \E g \in GoalInputs : create_goal("u1", g[1], g[2], g[3])
    \/ \E u \in Users, id \in GoalIds, a \in {3, 0 - 3} : add_deposit(u, id, a)
    \/ \E u \in Users, id \in GoalIds, a \in {1, 0 - 1} : add_withdraw(u, id, a)
    \/ \E t \in GoalTxInputs : TransactionViewSetCreate(t[1], t[2], t[3], t[4])
    \/ create_monthly_budget("u1", 1, 2, 2024, 12)
    \/ DayPasses

SpecGoals == InitGoals /\ [][NextGoals]_vars

\* Underuse recommendations: the store holds some of the monthly budgets of
\* category 1 for November 2024 to February 2025 (2000 each; November's may
\* be inactive, December's may be a weekly one starting on the 1st); expenses
\* of 1500, 2000 and 3000 are written into the three earlier months, budgets
\* are deleted and the clock moves from February to March 2025.
UnderuseRow(id, year, month, period_type, is_active) ==
    [id |-> id, user |-> "u1", category |-> 1, amount |-> 2000,
     period_type |-> period_type, start_date |-> MkDate(year, month, 1),
     end_date |-> IF period_type = MONTHLY THEN LastDayOfMonth(year, month)
                  ELSE MkDate(year, month, 7),
     is_active |-> is_active]

UnderuseTables ==
    {nov \cup dec \cup jan \cup feb :
        nov \in {{}, {UnderuseRow(1, 2024, 11, MONTHLY, TRUE)},
                 {UnderuseRow(1, 2024, 11, MONTHLY, FALSE)}},
        dec \in {{}, {UnderuseRow(2, 2024, 12, MONTHLY, TRUE)},
                 {UnderuseRow(2, 2024, 12, WEEKLY, TRUE)}},
        jan \in {{}, {UnderuseRow(3, 2025, 1, MONTHLY, TRUE)}},
        feb \in {{}, {UnderuseRow(4, 2025, 2, MONTHLY, TRUE)}}}

UnderuseTxAmounts == {0 - 1500, 0 - 2000, 0 - 3000}
UnderuseTxDates == {MkDate(2024, 11, 30), MkDate(2024, 12, 1), MkDate(2025, 1, 15)}

InitUnderuse ==
    /\ transactions = EmptyBag
    /\ budgets \in UnderuseTables
    /\ nextBudgetId = 5
    /\ pending = EmptyBag
    /\ user_data = [u \in Users |-> EmptyUserData]
    /\ result = OK
    /\ goals = {}
    /\ nextGoalId = 1
    /\ ledger = <<>>
    /\ today = MkDate(2025, 2, 15)

MonthPasses ==
    /\ today = MkDate(2025, 2, 15)
    /\ today' = MkDate(2025, 3, 1)
    /\ UNCHANGED <<transactions, budgets, nextBudgetId, pending, user_data,
                   result, goals, nextGoalId, ledger>>

NextUnderuse ==
    \/ \E a \in UnderuseTxAmounts, d \in UnderuseTxDates :
          TransactionViewSetCreate("u1", 1, a, d)
    \/ \E id \in 1..4 : handle_budget_delete_execution("u1", id)
    \/ MonthPasses

SpecUnderuse == InitUnderuse /\ [][NextUnderuse]_vars

\* Recommendation thresholds and ranking: each of u1's categories 1, 2, 4
\* and 5 holds no budgets or a budget of one amount for each of November
\* 2024 to January 2025 with a pattern of monthly spending; then expenses
\* are written and deleted, November budgets are deleted and the clock moves
\* from February to March 2025.
RecommendMonths == <<<<2024, 11>>, <<2024, 12>>, <<2025, 1>>>>

\* a profile is <<budget amount, <<spent in Nov, Dec, Jan>>>>; <<>> is
\* no budgets
NoBudgets == <<>>
ExampleProfile == <<5000, <<3800, 3800, 3800>>>>
LowMedianProfile == <<5000, <<4500, 4500, 0>>>>
LowShareProfile == <<30000, <<29000, 29000, 29000>>>>
AtThresholdsProfile == <<20000, <<19000, 19000, 19000>>>>
UnusedProfile == <<5000, <<0, 0, 0>>>>
MostlyUnusedProfile == <<5000, <<0, 0, 3800>>>>

RecommendProfiles ==
    [c \in {1, 2, 4, 5} |->
        CASE c = 1 -> {NoBudgets, ExampleProfile, LowMedianProfile, LowShareProfile,
                       AtThresholdsProfile, UnusedProfile, MostlyUnusedProfile}
          [] c = 2 -> {NoBudgets, UnusedProfile, MostlyUnusedProfile}
          [] c = 4 -> {NoBudgets, ExampleProfile, UnusedProfile}
          [] c = 5 -> {NoBudgets, AtThresholdsProfile, UnusedProfile}]

\* the budget rows of category cid under a profile; ids from first_id
ProfileBudgets(cid, first_id, profile) ==
    IF profile = NoBudgets THEN {}
    ELSE {[id |-> first_id + i - 1, user |-> "u1", category |-> cid,
           amount |-> profile[1], period_type |-> MONTHLY,
           start_date |-> MkDate(RecommendMonths[i][1], RecommendMonths[i][2], 1),
           end_date |-> LastDayOfMonth(RecommendMonths[i][1], RecommendMonths[i][2]),
           is_active |-> TRUE] : i \in 1..3}

\* the expense rows of category cid under a profile, dated on the 15th
ProfileTransactions(cid, profile) ==
    IF profile = NoBudgets THEN {}
    ELSE {TxRow("u1", cid, 0 - profile[2][i],
                MkDate(RecommendMonths[i][1], RecommendMonths[i][2], 15)) :
             i \in {j \in 1..3 : profile[2][j] > 0}}

InitRecommend ==
    /\ \E p \in [{1, 2, 4, 5} -> UNION {RecommendProfiles[c] : c \in {1, 2, 4, 5}}] :
          /\ \A c \in {1, 2, 4, 5} : p[c] \in RecommendProfiles[c]
          /\ budgets = ProfileBudgets(1, 1, p[1]) \cup ProfileBudgets(2, 4, p[2])
                           \cup ProfileBudgets(4, 7, p[4]) \cup ProfileBudgets(5, 10, p[5])
          /\ transactions =
                 SetToBag(UNION {ProfileTransactions(c, p[c]) : c \in {1, 2, 4, 5}})
    /\ nextBudgetId = 13
    /\ pending = EmptyBag
    /\ user_data = [u \in Users |-> EmptyUserData]
    /\ result = OK
    /\ goals = {}
    /\ nextGoalId = 1
    /\ ledger = <<>>
    /\ today = MkDate(2025, 2, 15)

NextRecommend ==
    \/ TransactionViewSetCreate("u1", 1, 0 - 3800, MkDate(2025, 1, 15))
    \/ \E t \in BagToSet(transactions) : t.category = 1 /\ delete_transaction("u1", t)
    \/ \E id \in {1, 4} : handle_budget_delete_execution("u1", id)
    \/ MonthPasses

SpecRecommend == InitRecommend /\ [][NextRecommend]_vars

\* Budget periods and lookup: monthly budgets of u1's category 1 are created
\* for every month of 2024 and for February and December 2025, one of u2
\* for December 2024; a quick_create without end_date for u1's category 2
\* and a POST with an end_date inside the month are saved in two steps; the
\* first budget is put inactive.
PeriodMonths == ({2024} \X (1..12)) \cup {<<2025, 2>>, <<2025, 12>>}

PeriodPost ==
    [category |-> 1, amount |-> 1,
     start_date |-> MkDate(2024, 12, 10), end_date |-> MkDate(2024, 12, 20)]

\* PUT of the stored budget b with is_active false
InactivePut(b) ==
    [category |-> b.category, amount |-> b.amount, start_date |-> b.start_date,
     end_date |-> b.end_date, is_active |-> FALSE]

InitPeriods == Init /\ today = MkDate(2024, 12, 15)

NextPeriods ==
    \/ \E ym \in PeriodMonths : create_monthly_budget("u1", 1, 1, ym[1], ym[2])
    \/ create_monthly_budget("u2", 3, 1, 2024, 12)
    \/ BudgetViewSetQuickCreate("u1", 2, 1, MkDate(2024, 12, 10))
    \/ BudgetViewSetCreate("u1", PeriodPost)
    \/ \E inst \in BagToSet(pending) : BudgetSave(inst)
    \/ \E b \in budgets : b.id = 1 /\ BudgetViewSetUpdate("u1", 1, InactivePut(b))

SpecPeriods == InitPeriods /\ [][NextPeriods]_vars

\* Queries: an expense, the December 2024 budget, a goal with a deposit and
\* a withdraw are written, the clock moves past the budget's period, and
\* every query function is called in between.
NextQueries ==
    \/ TransactionViewSetCreate("u1", 1, 0 - 2, MkDate(2024, 12, 31))
    \/ create_monthly_budget("u1", 1, 2, 2024, 12)
    \/ create_goal("u1", "car", 12, MkDate(2025, 2, 1))
    \/ add_deposit("u1", 1, 3)
    \/ add_withdraw("u1", 1, 1)
    \/ DayPasses
    \/ \E q \in QueryNames : CallQuery(q)

SpecQueries == InitGoals /\ [][NextQueries]_vars

\* Isolation: u2 has stored an expense counted in the January 2025 budget of
\* category 3 and a goal with a deposit; in February u1 writes through the
\* REST and bot entry points, and the ids and categories u1's requests name
\* range over every stored row, whoever owns it.
IsolationNow == MkDate(2025, 2, 15)
IsolationThen == MkDate(2025, 1, 15)
IsolationBudget ==
    [NewBudget("u2", 3, 2000, MONTHLY, MkDate(2025, 1, 1), MkDate(2025, 1, 31), TRUE)
        EXCEPT !.id = 1]
IsolationGoal ==
    [id |-> 1, user |-> "u2", title |-> "trip", target_amount |-> 0, deadline |-> NoDate]
IsolationEntry ==
    [goal |-> 1, amount |-> 3, entry_type |-> DEPOSIT, occurred_at |-> IsolationThen]

InitIsolation ==
    /\ transactions = SetToBag({TxRow("u2", 3, 0 - 500, IsolationThen)})
    /\ budgets = {IsolationBudget}
    /\ nextBudgetId = 2
    /\ pending = EmptyBag
    /\ user_data = [u \in Users |-> EmptyUserData]
    /\ result = OK
    /\ goals = {IsolationGoal}
    /\ nextGoalId = 2
    /\ ledger = <<IsolationEntry>>
    /\ today = IsolationNow

\* the operations one user can perform
ActsAs(u) ==
    \/ TransactionViewSetCreate(u, 3, 0 - 500, IsolationThen)
    \/ \E t \in BagToSet(transactions) : update_transaction_date(u, t, IsolationNow)
    \/ \E t \in BagToSet(transactions) : delete_transaction(u, t)
    \/ \E t \in BagToSet(transactions) :
          TransactionViewSetUpdate(u, t, [amount |-> 0 - 700])
    \/ \E t \in BagToSet(transactions) : TransactionViewSetDestroy(u, t)
    \/ create_monthly_budget(u, 3, 2000, 2025, 1)
    \/ \E id \in 1..MaxBudgets : BudgetViewSetUpdate(u, id, [amount |-> 900])
    \/ \E id \in 1..MaxBudgets : BudgetViewSetDestroy(u, id)
    \/ \E id \in 1..MaxBudgets : handle_budget_delete_execution(u, id)
    \/ create_goal(u, "trip", 0, NoDate)
    \/ \E id \in GoalIds : add_deposit(u, id, 3)
    \/ \E id \in GoalIds : add_withdraw(u, id, 1)

NextIsolation == ActsAs("u1")

SpecIsolation == InitIsolation /\ [][NextIsolation]_vars

\* Category ownership: u1 calls the REST and bot entry points that attach a
\* transaction or a budget to a category, naming a category of their own
\* (1) and a category of u2 (3).
OfferedCategoryIds == {1, 3}

NextOwnership ==
    \/ \E cid \in OfferedCategoryIds :
          TransactionViewSetCreate("u1", cid, 0 - 1, MkDate(2024, 12, 15))
    \/ \E cid \in OfferedCategoryIds :
          TransactionViewSetQuickAdd("u1", cid, 0 - 2, MkDate(2024, 12, 15))
    \/ \E cid \in OfferedCategoryIds, t \in BagToSet(transactions) :
          TransactionViewSetUpdate("u1", t, [category |-> cid])
    \/ \E cid \in OfferedCategoryIds : BudgetViewSetCreate("u1", CategoryPost(cid))
    \/ \E cid \in OfferedCategoryIds :
          BudgetViewSetQuickCreate("u1", cid, 1, MkDate(2024, 12, 1))
    \/ \E inst \in BagToSet(pending) : BudgetSave(inst)
    \/ \E cid \in OfferedCategoryIds, id \in BudgetIds :
          BudgetViewSetUpdate("u1", id, CategoryPost(cid))
    \/ \E cid \in OfferedCategoryIds : handle_budget_add_for_category("u1", cid)
    \/ \E cid \in OfferedCategoryIds : handle_limit_add_for_category("u1", cid)
    \/ handle_text_message("u1", 1)

SpecOwnership == InitPeriods /\ [][NextOwnership]_vars

\* Budget dialog: in December 2024 u1 opens budget edits, picks categories
\* 1 and 5 to add a budget for, and sends amounts (0 is refused). An edit is
\* opened only while no picked category is pending, so that whenever a
\* category is pending the pick is the latest dialog the user started.
DialogAmounts == {0, 1, 2}

NextDialogs ==
    \/ \E cid \in {1, 5} : handle_budget_add_for_category("u1", cid)
    \/ \E id \in BudgetIds :
          /\ user_data["u1"].budget_category_id = None
          /\ handle_budget_edit("u1", id)
    \/ \E a \in DialogAmounts : handle_text_message("u1", a)
    \/ \E id \in BudgetIds : handle_budget_delete_execution("u1", id)

SpecDialogs == InitPeriods /\ [][NextDialogs]_vars

\* Amount-only flow: u1 enters amounts, each larger than every amount
\* entered before (so that a stored amount names the entry it came from),
\* and selects categories 1, 2 and 3 (3 is u2's), repeatedly.
SelectionAmounts == {1, 2, 3}

AmountsSeen ==
    {Abs(t.amount) : t \in BagToSet(transactions)}
        \cup {user_data["u1"].current_amount}
        \cup {h.user_state.current_amount : h \in BagToSet(pending)}

NextSelection ==
    \/ \E a \in SelectionAmounts :
          /\ \A seen \in AmountsSeen : a > seen
          /\ _handle_amount_only("u1", a)
    \/ \E cid \in {1, 2, 3} : _handle_category_selection("u1", cid)
    \/ \E h \in BagToSet(pending) : CategorySelectionReturns(h)

SpecSelection == InitPeriods /\ [][NextSelection]_vars

\* Bot budgets: in December 2024 u1 creates the month's budgets of
\* categories 1 and 5 through the budget-amount dialog and the limit dialog
\* and records expenses on the 15th, the 29th and the 31st.
LimitExpenseDates ==
    {MkDate(2024, 12, 15), MkDate(2024, 12, 29), MkDate(2024, 12, 31)}

NextLimits ==
    \/ \E cid \in {1, 5} : handle_budget_add_for_category("u1", cid)
    \/ \E cid \in {1, 5} : handle_limit_add_for_category("u1", cid)
    \/ handle_text_message("u1", 2)
    \/ \E cid \in {1, 5}, d \in LimitExpenseDates :
          TransactionViewSetCreate("u1", cid, 0 - 1, d)

SpecLimits == InitPeriods /\ [][NextLimits]_vars

\* ------------------------------------------------------------- properties

RECURSIVE SumOfAbs(_)
SumOfAbs(rows) ==
    IF rows = {} THEN 0
    ELSE LET t == CHOOSE x \in rows : TRUE
         IN  Abs(t.amount) * CopiesIn(t, transactions) + SumOfAbs(rows \ {t})

\* the stored transactions of b's user and category dated inside b's period
InPeriod(b) ==
    {t \in BagToSet(transactions) :
        /\ t.user = b.user /\ t.category = b.category
        /\ b.start_date <= t.date /\ t.date <= b.end_date}

ExpenseSpent(b) == SumOfAbs({t \in InPeriod(b) : t.amount < 0})

C2_PositiveAmountsCount ==
    \A b \in budgets :
        Category(b.category).type = EXPENSE => spent_amount(b) = SumOfAbs(InPeriod(b))

\* C3: remaining_amount = amount - spent_amount exactly (negative when
\* overspent), and is_overspent holds exactly when spent_amount > amount,
\* that is exactly when remaining_amount < 0; spending equal to the amount
\* is not overspent.
C3_RemainingAndOverspent ==
    \A b \in budgets :
        /\ remaining_amount(b) = b.amount - ExpenseSpent(b)
        /\ is_overspent(b) <=> (ExpenseSpent(b) > b.amount)
        /\ is_overspent(b) <=> (remaining_amount(b) < 0)
        /\ (ExpenseSpent(b) = b.amount) => ~is_overspent(b)

C3_Witness ==
    \E b \in budgets :
        /\ b.amount > 0
        /\ ExpenseSpent(b) = b.amount
        /\ remaining_amount(b) = 0
        /\ ~is_overspent(b)

\* C4: spent_percentage is 0 whenever the budget amount is 0, whatever is
\* spent in the period; for a non-zero amount it is spent_amount / amount *
\* 100, above 100 when overspent.
C4_SpentPercentage ==
    \A b \in budgets :
        LET p == spent_percentage(b)
        IN  /\ p[2] > 0
            /\ (b.amount = 0) => (p[1] = 0)
            /\ (b.amount # 0) => (p[1] * b.amount = ExpenseSpent(b) * 100 * p[2])
            /\ (b.amount > 0 /\ ExpenseSpent(b) > b.amount) => (p[1] > 100 * p[2])

C4_Witness ==
    \E b \in budgets :
        /\ b.amount = 0
        /\ ExpenseSpent(b) > 0
        /\ spent_percentage(b)[1] = 0

\* every Budget object there is: the stored rows and the instances not yet
\* saved
BudgetObjects == budgets \cup BagToSet(pending)

C6_DaysRemainingCountsToday ==
    \A b \in budgets :
        (today <= b.end_date) =>
            /\ days_remaining(b) = (b.end_date - today) + 1
            /\ daily_budget_remaining(b) =
                   Frac(remaining_amount(b), (b.end_date - today) + 1)

SharesADay(a, b) ==
    \E d \in a.start_date..a.end_date : b.start_date <= d /\ d <= b.end_date

\* C8: in every state reached through the budget-writing entry points (REST
\* create and update, quick_create, the bot's budget dialog, the bot's limit
\* dialog) no user has two active budgets of one category whose
\* [start_date, end_date] windows overlap.
C8_NoActiveOverlap ==
    \A a, b \in budgets :
        (/\ a.id # b.id
         /\ a.user = b.user /\ a.category = b.category
         /\ a.is_active /\ b.is_active) => ~SharesADay(a, b)

\* the active budgets of user u and category cid, other than the one with id
\* self, having a day inside [start_date, end_date]
Blockers(u, cid, start_date, end_date, self) ==
    {b \in budgets :
        /\ b.id # self /\ b.user = u /\ b.category = cid /\ b.is_active
        /\ \E d \in start_date..end_date : b.start_date <= d /\ d <= b.end_date}

\* a create through BudgetSerializer, its category accepted
C9_CreateStep ==
    \A data \in BudgetPosts :
        (validate_category("u1", data.category) /\ BudgetViewSetCreate("u1", data)) =>
            /\ (result' = OVERLAP_ERROR) <=>
                   (Blockers("u1", data.category, data.start_date, data.end_date,
                             None) # {})
            /\ (result' = OVERLAP_ERROR) => UNCHANGED <<budgets, pending>>

\* an update through BudgetSerializer of a budget of the caller, the category
\* accepted: the requested window is the one the budget is to have
C9_UpdateStep ==
    \A r \in UpdateRequests, id \in BudgetIds :
        (/\ \E b \in budgets : b.id = id /\ b.user = r[1]
         /\ ("category" \in DOMAIN r[2]) => validate_category(r[1], r[2].category)
         /\ BudgetViewSetUpdate(r[1], id, r[2])) =>
            LET b == BudgetById(id)
                category == FieldOr(r[2], "category", b.category)
                start_date == FieldOr(r[2], "start_date", b.start_date)
                end_date == FieldOr(r[2], "end_date", b.end_date)
            IN  /\ (result' = OVERLAP_ERROR) <=>
                       (Blockers(r[1], category, start_date, end_date, id) # {})
                /\ (result' = OVERLAP_ERROR) => UNCHANGED <<budgets, pending>>

\* C9: a create or an update through the validated path is rejected with the
\* validation error, nothing written, exactly when another active budget of
\* the same user and category has a day inside the requested
\* [start_date, end_date]; the budget being updated is not compared with
\* itself and inactive budgets do not block.
C9_RejectedExactlyOnOverlap == [][C9_CreateStep /\ C9_UpdateStep]_vars

SameKey(a, b) ==
    /\ a.user = b.user /\ a.category = b.category
    /\ a.start_date = b.start_date /\ a.end_date = b.end_date

UniqueKeys == \A a, b \in budgets : SameKey(a, b) => a = b

\* a save of an instance whose key is stored already fails and writes nothing
C10_SaveStep ==
    \A inst \in BagToSet(pending) :
        (/\ pending' = pending (-) SetToBag({inst})
         /\ BudgetSave(inst)
         /\ \E b \in budgets : SameKey(b, AutoEndDate(inst))) =>
            (result' = INTEGRITY_ERROR /\ budgets' = budgets)

\* C10: no two stored budgets share (user, category, start_date, end_date),
\* active or not; a create of a stored key fails and leaves the stored
\* budgets as they were, so of two requests that both passed the overlap
\* check for one period before either was saved at most one is stored.
C10_UniquePerPeriod ==
    []UniqueKeys
    /\ [][/\ C10_SaveStep
          /\ (result' \in {INTEGRITY_ERROR, ERROR_MESSAGE}) => budgets' = budgets]_vars

C10_Witness ==
    /\ result = INTEGRITY_ERROR
    /\ nextBudgetId = 2
    /\ pending = EmptyBag
    /\ \E b \in budgets : budgets = {b} /\ b.is_active

\* the budget the open dialog of user u creates from a valid amount: the
\* limit dialog's when one is open, else the budget dialog's
DialogInstance(u, amount) ==
    IF user_data[u].limit_creation # None
    THEN NewBudget(u, user_data[u].limit_creation, amount, MONTHLY,
                   ReplaceDay(today, 1), ReplaceDay(today, 28), TRUE)
    ELSE NewBudget(u, user_data[u].budget_category_id, amount, MONTHLY,
                   MkDate(YearOf(today), MonthOf(today), 1),
                   LastDayOfMonth(YearOf(today), MonthOf(today)), TRUE)

\* a save of a request's instance that meets a stored key
C11_SaveStep ==
    \A inst \in BagToSet(pending) :
        (/\ pending' = pending (-) SetToBag({inst})
         /\ budgets' = budgets
         /\ BudgetSave(inst)
         /\ \E b \in budgets : SameKey(b, AutoEndDate(inst))) =>
            result' = OVERLAP_ERROR

\* a create of the bot's dialogs that meets a stored key
C11_DialogStep ==
    (/\ budgets' = budgets
     /\ result' \notin {OK, NOT_FOUND, INVALID_AMOUNT}
     /\ handle_text_message("u1", 1)
     /\ \E b \in budgets : SameKey(b, DialogInstance("u1", 1))) =>
        result' = OVERLAP_ERROR

\* C11: in every budget-creating entry point a create that meets the
\* uniqueness constraint at commit time is reported to the caller as the
\* overlapping-period validation error of the synchronous check, not as an
\* unhandled failure.
C11_DuplicateReportedAsOverlap == [][C11_SaveStep /\ C11_DialogStep]_vars

\* C12: every budget written through any entry point references a category
\* of type expense that is active; a budget for an income category or an
\* inactive category is never stored.
C12_ExpenseActiveCategory ==
    \A b \in budgets :
        Category(b.category).type = EXPENSE /\ Category(b.category).is_active

\* C13: every stored transaction obeys the sign convention, whichever entry
\* point created it: in an expense category the amount is negative, in an
\* income category it is positive.
C13_SignConvention ==
    \A t \in BagToSet(transactions) :
        /\ (Category(t.category).type = EXPENSE) => (t.amount < 0)
        /\ (Category(t.category).type = INCOME) => (t.amount > 0)

\* the user's transactions dated in the calendar month of the day month
TxOfMonth(u, month) ==
    {t \in BagToSet(transactions) :
        /\ t.user = u
        /\ YearOf(t.date) = YearOf(month) /\ MonthOf(t.date) = MonthOf(month)}

IncomeTotal(u, month) == SumAmount({t \in TxOfMonth(u, month) : t.amount > 0})
ExpensesTotal(u, month) == SumOfAbs({t \in TxOfMonth(u, month) : t.amount < 0})

\* what a ledger write of user u must leave alone
C14_Frame(u) ==
    /\ transactions' = transactions
    /\ budgets' = budgets
    /\ IncomeTotal(u, today)' = IncomeTotal(u, today)
    /\ ExpensesTotal(u, today)' = ExpensesTotal(u, today)
    /\ \A b \in budgets : spent_amount(b)' = spent_amount(b)

C14_DepositStep ==
    \A u \in Users, id \in GoalIds, a \in {3, 0 - 3} :
        (ledger' # ledger /\ add_deposit(u, id, a)) =>
            /\ get_free_funds_for_month(u, today)' =
                   get_free_funds_for_month(u, today) - Abs(a)
            /\ C14_Frame(u)

C14_WithdrawStep ==
    \A u \in Users, id \in GoalIds, a \in {1, 0 - 1} :
        (ledger' # ledger /\ add_withdraw(u, id, a)) =>
            /\ get_free_funds_for_month(u, today)' =
                   get_free_funds_for_month(u, today) + Abs(a)
            /\ C14_Frame(u)

\* C14: a deposit of a into a goal of the user in month M lowers the user's
\* free funds of M by exactly a and a withdraw of a raises them by exactly
\* a; the transaction store, the month's income and expense totals and
\* every budget's spent_amount stay as they were.
C14_ReservationNotExpense == [][C14_DepositStep /\ C14_WithdrawStep]_vars

C14_Witness ==
    /\ Len(ledger) = 1
    /\ ledger[1].entry_type = DEPOSIT /\ ledger[1].occurred_at = today
    /\ result = OK
    /\ \E b \in budgets : spent_amount(b) = 2
    /\ ExpensesTotal("u1", today) = 2
    /\ get_free_funds_for_month("u1", today) = 0 - 5

\* the ledger positions of u's goals whose entry falls in the calendar month
EntriesOfMonth(u, month) ==
    {i \in 1..Len(ledger) :
        /\ \E g \in goals : g.id = ledger[i].goal /\ g.user = u
        /\ YearOf(ledger[i].occurred_at) = YearOf(month)
        /\ MonthOf(ledger[i].occurred_at) = MonthOf(month)}

\* the signed sum of the ledger entries at the given positions
RECURSIVE SignedSum(_)
SignedSum(idx) ==
    IF idx = {} THEN 0
    ELSE LET i == CHOOSE x \in idx : TRUE
         IN  ledger[i].amount + SignedSum(idx \ {i})

C15_Months ==
    {MkDate(2024, 12, 1), MkDate(2024, 12, 31), MkDate(2025, 1, 1),
     MkDate(2025, 1, 31), MkDate(2025, 2, 1), MkDate(2025, 2, 2)}

\* C15: free_funds_for_month is the sum of the user's positive transaction
\* amounts of the calendar month, minus the sum of the absolute values of
\* the negative ones, minus the signed sum of the ledger entries of the
\* user's goals that occurred in the month (December ends where January of
\* the next year starts); with no data in the month it is 0.
C15_FreeFundsFormula ==
    \A u \in Users, m \in C15_Months :
        /\ get_free_funds_for_month(u, m) =
               IncomeTotal(u, m) - ExpensesTotal(u, m)
                   - SignedSum(EntriesOfMonth(u, m))
        /\ (TxOfMonth(u, m) = {} /\ EntriesOfMonth(u, m) = {}) =>
               get_free_funds_for_month(u, m) = 0

\* an expense and a deposit in December 2024, an income on 1 January 2025:
\* December's free funds are negative, January's are the income alone
C15_Witness ==
    /\ ExpensesTotal("u1", MkDate(2024, 12, 31)) = 2
    /\ IncomeTotal("u1", MkDate(2025, 1, 1)) = 5
    /\ EntriesOfMonth("u1", MkDate(2024, 12, 31)) # {}
    /\ get_free_funds_for_month("u1", MkDate(2024, 12, 31)) < 0
    /\ get_free_funds_for_month("u1", MkDate(2025, 1, 1)) = 5
    /\ get_free_funds_for_month("u2", MkDate(2025, 1, 1)) = 0

\* the ledger positions of the entries of one goal
EntriesOfGoal(id) == {i \in 1..Len(ledger) : ledger[i].goal = id}

\* the balance each owner sees is the plain sum of the goal's entries
C16_BalanceIsSum ==
    \A g \in goals : get_goal_balance(g.user, g.id) = SignedSum(EntriesOfGoal(g.id))

\* every entry that exists stays where it is and as it is
C16_AppendOnly ==
    /\ Len(ledger') >= Len(ledger)
    /\ \A i \in 1..Len(ledger) : ledger'[i] = ledger[i]

\* one appended entry moves its goal's balance by its signed amount and
\* leaves the other balances alone
C16_BalanceStep ==
    (ledger' # ledger) =>
        /\ Len(ledger') = Len(ledger) + 1
        /\ \A g \in goals :
              get_goal_balance(g.user, g.id)' =
                  get_goal_balance(g.user, g.id)
                      + (IF ledger'[Len(ledger')].goal = g.id
                         THEN ledger'[Len(ledger')].amount ELSE 0)

\* C16: a goal's balance is the unclamped running sum of its ledger
\* entries; each add_deposit/add_withdraw changes it by exactly the signed
\* amount of the entry it appends, and no step modifies or removes an
\* entry that already exists.
C16_BalanceIsRunningSum ==
    []C16_BalanceIsSum /\ [][C16_AppendOnly /\ C16_BalanceStep]_vars

\* a withdraw of 1 from an empty goal, then a deposit of 3: the balance
\* went through -1 and is 2
C16_Witness ==
    /\ Len(ledger) = 2
    /\ ledger[1].goal = 1 /\ ledger[1].entry_type = WITHDRAW /\ ledger[1].amount = 0 - 1
    /\ ledger[2].goal = 1 /\ ledger[2].entry_type = DEPOSIT /\ ledger[2].amount = 3
    /\ get_goal_balance("u1", 1) = 2

\* the goal id names a goal of the calling user
Resolves(u, id) == \E g \in goals : g.id = id /\ g.user = u

\* the ledger grew by exactly one entry of the given goal, type and amount
AppendedOne(id, amount, entry_type) ==
    /\ Len(ledger') = Len(ledger) + 1
    /\ \A i \in 1..Len(ledger) : ledger'[i] = ledger[i]
    /\ ledger'[Len(ledger')].goal = id
    /\ ledger'[Len(ledger')].entry_type = entry_type
    /\ ledger'[Len(ledger')].amount = amount

C17_DepositStep ==
    \A u \in Users, id \in GoalIds, a \in {3, 0 - 3} :
        add_deposit(u, id, a) =>
            IF Resolves(u, id)
            THEN AppendedOne(id, 3, DEPOSIT) /\ result' = OK
            ELSE ledger' = ledger /\ result' = NOT_FOUND

C17_WithdrawStep ==
    \A u \in Users, id \in GoalIds, a \in {1, 0 - 1} :
        add_withdraw(u, id, a) =>
            IF Resolves(u, id)
            THEN AppendedOne(id, 0 - 1, WITHDRAW) /\ result' = OK
            ELSE ledger' = ledger /\ result' = NOT_FOUND

\* C17: add_deposit appends exactly one entry of type deposit with amount
\* +abs(amount) and add_withdraw exactly one entry of type withdraw with
\* amount -abs(amount), whatever the sign of the input; when the goal id
\* is missing or belongs to another user the call returns none and the
\* ledger is unchanged.
C17_SignedByOperation == [][C17_DepositStep /\ C17_WithdrawStep]_vars

\* a deposit and a withdraw are stored and the last call did not resolve
\* its goal
C17_Witness ==
    /\ Len(ledger) = 2
    /\ \E i \in 1..2 : ledger[i].entry_type = DEPOSIT /\ ledger[i].amount = 3
    /\ \E i \in 1..2 : ledger[i].entry_type = WITHDRAW /\ ledger[i].amount = 0 - 1
    /\ result = NOT_FOUND

\* the deadline exists and is not before today
HasOpenDeadline(g) == g.deadline # NoDate /\ g.deadline >= today

\* months_remaining_inclusive as the specification writes it
MonthsRemainingInclusive(g) ==
    (YearOf(g.deadline) - YearOf(today)) * 12
        + (MonthOf(g.deadline) - MonthOf(today)) + 1

\* q hundredths is x / n rounded to the nearest hundredth, ties to even
NearestHundredth(q, x, n) ==
    /\ 2 * Abs(100 * x - q * n) <= n
    /\ (2 * Abs(100 * x - q * n) = n) => (q % 2 = 0)

\* the card of goal g as its owner sees it
CardOf(g) == get_goal_card_data(g.user, g.id)

C18_NoPlanWithoutOpenDeadline ==
    \A g \in goals :
        ~HasOpenDeadline(g) =>
            /\ CardOf(g).planned_per_month = <<>>
            /\ CardOf(g).remaining_this_month = <<>>

C18_Example ==
    \A g \in goals :
        (/\ g.target_amount = 12 /\ CardOf(g).balance = 3
         /\ HasOpenDeadline(g) /\ MonthsRemainingInclusive(g) = 3) =>
            CardOf(g).planned_per_month = <<300>>

\* C18 (as stated): for a goal whose deadline is not before today,
\* planned_per_month equals remaining_total divided by
\* months_remaining_inclusive; with no deadline or a past one,
\* planned_per_month and remaining_this_month are none.
C18_PlannedIsExactQuotient ==
    /\ \A g \in goals :
          HasOpenDeadline(g) =>
              /\ MonthsRemainingInclusive(g) >= 1
              /\ CardOf(g).months_remaining = <<MonthsRemainingInclusive(g)>>
              /\ CardOf(g).planned_per_month # <<>>
              /\ CardOf(g).planned_per_month[1] * MonthsRemainingInclusive(g) =
                     100 * CardOf(g).remaining_total
    /\ C18_NoPlanWithoutOpenDeadline
    /\ C18_Example

\* C18 (amended): for a goal whose deadline is not before today,
\* planned_per_month is remaining_total divided by months_remaining_inclusive
\* = (deadline.year - today.year) * 12 + (deadline.month - today.month) + 1
\* (at least 1), rounded to two decimal places; with no deadline or a past
\* one, planned_per_month and remaining_this_month are none; target 12 with 3
\* deposited and 3 months remaining gives 3.00.
C18_PlannedIsRoundedQuotient ==
    /\ \A g \in goals :
          HasOpenDeadline(g) =>
              /\ MonthsRemainingInclusive(g) >= 1
              /\ CardOf(g).months_remaining = <<MonthsRemainingInclusive(g)>>
              /\ CardOf(g).planned_per_month # <<>>
              /\ NearestHundredth(CardOf(g).planned_per_month[1],
                                  CardOf(g).remaining_total,
                                  MonthsRemainingInclusive(g))
    /\ C18_NoPlanWithoutOpenDeadline
    /\ C18_Example

\* on 31 December 2024 the goal due 1 February 2025 has three months left
\* and 10 of 12 remaining: the plan is 3.33 a month; the goal without a
\* deadline has no plan
C18_Witness ==
    /\ today = MkDate(2024, 12, 31)
    /\ \E g \in goals :
          /\ g.deadline = MkDate(2025, 2, 1)
          /\ CardOf(g).months_remaining = <<3>>
          /\ CardOf(g).remaining_total = 10
          /\ CardOf(g).planned_per_month = <<333>>
    /\ \E g \in goals : g.deadline = NoDate /\ CardOf(g).planned_per_month = <<>>

\* the larger of x and zero
AtLeastZero(x) == IF x < 0 THEN 0 ELSE x

\* the deposits into goal id dated in today's calendar month
DepositedThisMonth(id) ==
    SignedSum({i \in EntriesOfGoal(id) :
                  /\ ledger[i].amount > 0
                  /\ YearOf(ledger[i].occurred_at) = YearOf(today)
                  /\ MonthOf(ledger[i].occurred_at) = MonthOf(today)})

\* C19: in goal_card_data the balance is max(ledger sum, 0), remaining_total
\* is max(target - balance, 0), progress is 0 when the target is 0 and
\* remaining_this_month is max(planned - deposited_this_month, 0); none of
\* them is negative, even after more was withdrawn than deposited.
C19_CardIsClamped ==
    \A g \in goals :
        LET card == CardOf(g)
        IN  /\ card.balance = AtLeastZero(SignedSum(EntriesOfGoal(g.id)))
            /\ card.remaining_total = AtLeastZero(g.target_amount - card.balance)
            /\ (g.target_amount = 0) => card.progress_pct = <<0, 1>>
            /\ card.deposited_this_month = DepositedThisMonth(g.id)
            /\ (card.planned_per_month # <<>>) =>
                   card.remaining_this_month =
                       <<AtLeastZero(card.planned_per_month[1]
                                         - 100 * card.deposited_this_month)>>
            /\ card.balance >= 0 /\ card.remaining_total >= 0
            /\ card.progress_pct[1] >= 0 /\ card.progress_pct[2] > 0
            /\ (card.remaining_this_month # <<>>) => card.remaining_this_month[1] >= 0

\* the goal with target 12 was overdrawn (ledger sum -1, shown balance 0)
\* and the goal with target 0 holds 3 (nothing remaining, progress 0)
C19_Witness ==
    /\ \E g \in goals :
          /\ g.target_amount = 12
          /\ SignedSum(EntriesOfGoal(g.id)) = 0 - 1
          /\ CardOf(g).balance = 0 /\ CardOf(g).remaining_total = 12
    /\ \E g \in goals :
          /\ g.target_amount = 0
          /\ SignedSum(EntriesOfGoal(g.id)) = 3
          /\ CardOf(g).remaining_total = 0 /\ CardOf(g).progress_pct = <<0, 1>>

\* the N calendar months before today's, as <<year, month>> pairs
PrecedingMonths(n) ==
    {<<(YearOf(today) * 12 + MonthOf(today) - 1 - k) \div 12,
       ((YearOf(today) * 12 + MonthOf(today) - 1 - k) % 12) + 1>> : k \in 1..n}

\* u has a monthly budget of the category for the month that is not used up
UnderusedIn(u, cid, ym) ==
    \E b \in budgets :
        /\ b.user = u /\ b.category = cid /\ b.period_type = MONTHLY
        /\ YearOf(b.start_date) = ym[1] /\ MonthOf(b.start_date) = ym[2]
        /\ AtLeastZero(b.amount - spent_amount(b)) > 0

\* C20: a category is recommended only if, for each of the 3 calendar
\* months before today's month (the current month left out, across a year
\* boundary), the user has a monthly budget of that category for that month
\* with max(0, amount - spent_amount) > 0; one month without a budget, fully
\* spent or overspent disqualifies the category.
C20_SustainedUnderuseOnly ==
    \A u \in Users :
        \A results \in get_budget_underuse_recommendations(u, months_default) :
            \A i \in DOMAIN results :
                \A ym \in PrecedingMonths(months_default) :
                    UnderusedIn(u, results[i].category, ym)

\* in February 2025 category 1 is recommended on November and December
\* 2024 and January 2025, one of them partly spent
C20_Witness ==
    /\ today = MkDate(2025, 2, 15)
    /\ PrecedingMonths(months_default) = {<<2024, 11>>, <<2024, 12>>, <<2025, 1>>}
    /\ \E b \in budgets : spent_amount(b) = 1500
    /\ get_budget_underuse_recommendations("u1", months_default) =
           {<<[category |-> 1, suggested_amount |-> 200000]>>}

\* u's active monthly budgets of the category that start on the first day
\* of the month ym
MonthBudgets(u, cid, ym) ==
    {b \in budgets :
        /\ b.user = u /\ b.category = cid /\ b.period_type = MONTHLY /\ b.is_active
        /\ YearOf(b.start_date) = ym[1] /\ MonthOf(b.start_date) = ym[2]
        /\ DayOf(b.start_date) = 1}

UnderuseOf(b) == AtLeastZero(b.amount - spent_amount(b))

\* the category has one budget in each of the N months and each is underused
ShowsUnderuse(u, cid, n) ==
    \A ym \in PrecedingMonths(n) :
        /\ Cardinality(MonthBudgets(u, cid, ym)) = 1
        /\ \A b \in MonthBudgets(u, cid, ym) : UnderuseOf(b) > 0

\* the budget of each of the N months, for a category that shows underuse
BudgetOfMonth(u, cid, n) ==
    [ym \in PrecedingMonths(n) |-> CHOOSE b \in MonthBudgets(u, cid, ym) : TRUE]

\* the median of an odd number n of monthly underuses: the value that more
\* than half of the months reach and more than half do not exceed
MedianUnderuse(u, cid, n) ==
    LET of_month == BudgetOfMonth(u, cid, n)
    IN  CHOOSE x \in {UnderuseOf(of_month[ym]) : ym \in PrecedingMonths(n)} :
            /\ 2 * Cardinality({ym \in PrecedingMonths(n) :
                                   UnderuseOf(of_month[ym]) <= x}) > n
            /\ 2 * Cardinality({ym \in PrecedingMonths(n) :
                                   UnderuseOf(of_month[ym]) >= x}) > n

RECURSIVE SumOfBudgetAmounts(_)
SumOfBudgetAmounts(bs) ==
    IF bs = {} THEN 0
    ELSE LET b == CHOOSE x \in bs : TRUE
         IN  b.amount + SumOfBudgetAmounts(bs \ {b})

\* the median x passes both thresholds: x >= min_rubles and
\* x / (sum of amounts / n) >= min_percent / 100
PassesThresholds(x, u, cid, n) ==
    LET of_month == BudgetOfMonth(u, cid, n)
    IN  /\ x >= 1000
        /\ 100 * x * n >= 5 * SumOfBudgetAmounts({of_month[ym] : ym \in PrecedingMonths(n)})

\* C21: a category that shows underuse in all 3 months is recommended
\* exactly when the median of its monthly underuses is at least 1000 and
\* at least 5% of the average of its budget amounts (a qualifying category
\* is missing only from a list that is full), and the suggested_amount is
\* that median, not the mean; 5000 with 3800 spent in each month gives 1200.
C21_MedianAndThresholds ==
    \A u \in Users, cid \in CategoryIds :
        ShowsUnderuse(u, cid, 3) =>
            \A results \in get_budget_underuse_recommendations(u, months_default) :
                LET x == MedianUnderuse(u, cid, 3)
                    listed == {i \in DOMAIN results : results[i].category = cid}
                IN  /\ \A i \in listed :
                          /\ PassesThresholds(x, u, cid, 3)
                          /\ results[i].suggested_amount = 100 * x
                    /\ (PassesThresholds(x, u, cid, 3) /\ Len(results) < 3) =>
                          listed # {}
                    /\ (\A b \in budgets :
                            b.category = cid =>
                                b.amount = 5000 /\ spent_amount(b) = 3800) =>
                          (x = 1200 /\ PassesThresholds(x, u, cid, 3))

\* category 1 with 5000 and 3800 spent each month is recommended 1200;
\* category 5 at 20000 with 19000 spent sits on both thresholds and is
\* recommended 1000; category 2 lost its November budget and is not listed
C21_Witness ==
    /\ today = MkDate(2025, 2, 15)
    /\ \A b \in budgets : b.category = 1 => b.amount = 5000 /\ spent_amount(b) = 3800
    /\ \A b \in budgets : b.category = 5 => b.amount = 20000 /\ spent_amount(b) = 19000
    /\ {b.category : b \in budgets} = {1, 2, 5}
    /\ Cardinality(budgets) = 8
    /\ get_budget_underuse_recommendations("u1", months_default) =
           {<<[category |-> 1, suggested_amount |-> 120000],
              [category |-> 5, suggested_amount |-> 100000]>>}

\* the category shows underuse and its median passes both thresholds
Qualifies(u, cid) ==
    ShowsUnderuse(u, cid, 3) /\ PassesThresholds(MedianUnderuse(u, cid, 3), u, cid, 3)

\* C22: get_budget_underuse_recommendations returns at most 3
\* recommendations, ordered by suggested_amount descending, each category at
\* most once, and a qualifying category is left out only when three with
\* at least its suggested_amount are returned.
C22_TopThreeDescending ==
    \A u \in Users :
        \A results \in get_budget_underuse_recommendations(u, months_default) :
            /\ Len(results) <= 3
            /\ \A i, j \in DOMAIN results :
                  i < j =>
                      /\ results[i].suggested_amount >= results[j].suggested_amount
                      /\ results[i].category # results[j].category
            /\ \A i \in DOMAIN results : Qualifies(u, results[i].category)
            /\ \A cid \in CategoryIds :
                  (Qualifies(u, cid) /\ \A i \in DOMAIN results : results[i].category # cid) =>
                      /\ Len(results) = 3
                      /\ \A i \in DOMAIN results :
                            results[i].suggested_amount
                                >= 100 * MedianUnderuse(u, cid, 3)

\* four categories qualify, with 5000 (category 1, after one of its two
\* expenses of 4500 was deleted), 5000, 1200 and 1000: the two of 5000 come
\* first in either order, then 1200, and 1000 is left out
C22_Witness ==
    /\ today = MkDate(2025, 2, 15)
    /\ {spent_amount(b) : b \in {x \in budgets : x.category = 1}} = {4500, 0}
    /\ \A cid \in {1, 2, 4, 5} : Qualifies("u1", cid)
    /\ get_budget_underuse_recommendations("u1", months_default) =
           {<<[category |-> 1, suggested_amount |-> 500000],
              [category |-> 2, suggested_amount |-> 500000],
              [category |-> 4, suggested_amount |-> 120000]>>,
            <<[category |-> 2, suggested_amount |-> 500000],
              [category |-> 1, suggested_amount |-> 500000],
              [category |-> 4, suggested_amount |-> 120000]>>}

\* the lookups the properties make: both users, three categories, days
\* before, at the ends of and after the stored periods
LookupDates ==
    {MkDate(2024, 11, 30), MkDate(2024, 12, 1), MkDate(2024, 12, 9),
     MkDate(2024, 12, 10), MkDate(2024, 12, 20), MkDate(2024, 12, 21),
     MkDate(2024, 12, 31), MkDate(2025, 1, 1)}

\* b is a budget the lookup may return
Current(b, u, cid, date) ==
    /\ b.user = u /\ b.category = cid /\ b.is_active
    /\ b.start_date <= date /\ date <= b.end_date

\* C23: get_current_budget(user, category, date) returns a budget only if
\* it is of that user and category, active, and start_date <= date <=
\* end_date (both ends inclusive); it returns none exactly when no such
\* budget is stored.
C23_CurrentBudget ==
    \A u \in Users, cid \in {1, 2, 3}, date \in LookupDates :
        /\ \A b \in get_current_budget(u, cid, date) :
              b \in budgets /\ Current(b, u, cid, date)
        /\ (get_current_budget(u, cid, date) = {}) <=>
              ~(\E b \in budgets : Current(b, u, cid, date))

\* the December 2024 budget of category 1 was put inactive and the budget
\* of 10 to 20 December is stored: the lookup finds the second on both of
\* its ends, nothing on the days around it and nothing for u2
C23_Witness ==
    /\ \E b \in budgets :
          /\ b.user = "u1" /\ b.category = 1 /\ ~b.is_active
          /\ b.start_date = MkDate(2024, 12, 1) /\ b.end_date = MkDate(2024, 12, 31)
    /\ \E b \in budgets :
          /\ b.start_date = MkDate(2024, 12, 10) /\ b.end_date = MkDate(2024, 12, 20)
          /\ get_current_budget("u1", 1, MkDate(2024, 12, 10)) = {b}
          /\ get_current_budget("u1", 1, MkDate(2024, 12, 20)) = {b}
    /\ get_current_budget("u1", 1, MkDate(2024, 12, 9)) = {}
    /\ get_current_budget("u1", 1, MkDate(2024, 12, 21)) = {}
    /\ get_current_budget("u2", 1, MkDate(2024, 12, 10)) = {}

\* d is the last day of the month ym
IsLastDayOf(d, ym) ==
    /\ YearOf(d) = ym[1] /\ MonthOf(d) = ym[2]
    /\ DayOf(d + 1) = 1

C24_CreateStep ==
    \A ym \in PeriodMonths :
        (budgets' # budgets /\ create_monthly_budget("u1", 1, 1, ym[1], ym[2])) =>
            \E b \in budgets' \ budgets :
                /\ b.period_type = MONTHLY
                /\ YearOf(b.start_date) = ym[1] /\ MonthOf(b.start_date) = ym[2]
                /\ DayOf(b.start_date) = 1
                /\ IsLastDayOf(b.end_date, ym)
                /\ days_total(b) = DaysInMonth(ym[1], ym[2])

C24_SaveStep ==
    \A inst \in BagToSet(pending) :
        (budgets' # budgets /\ BudgetSave(inst)) =>
            \E b \in budgets' \ budgets :
                /\ b.start_date = inst.start_date
                /\ IF inst.end_date = NoDate
                   THEN IsLastDayOf(b.end_date,
                                    <<YearOf(inst.start_date), MonthOf(inst.start_date)>>)
                   ELSE b.end_date = inst.end_date

\* C24: for every year and month, create_monthly_budget yields a monthly
\* budget from the first to the last day of that month (December ends on
\* 31 December of the same year), so days_total is the number of days of
\* the month; saving a monthly budget without end_date sets it to the last
\* day of start_date's month, and a supplied end_date is kept.
C24_WholeMonth == [][C24_CreateStep /\ C24_SaveStep]_vars

\* the budget of February 2024 has 29 days and the budget saved with a
\* start on 10 December and no end_date ends on 31 December
C24_Witness ==
    /\ \E b \in budgets :
          /\ b.start_date = MkDate(2024, 2, 1) /\ b.end_date = MkDate(2024, 2, 29)
          /\ days_total(b) = 29
    /\ \E b \in budgets :
          /\ b.category = 2
          /\ b.start_date = MkDate(2024, 12, 10) /\ b.end_date = MkDate(2024, 12, 31)

SpentOf(u) == [b \in {x \in budgets : x.user = u} |-> spent_amount(b)]

BalancesOf(u) == [g \in {x \in goals : x.user = u} |-> get_goal_balance(u, g.id)]

FreeFundsOf(u) ==
    [m \in {IsolationThen, IsolationNow} |-> get_free_funds_for_month(u, m)]

RecommendationsOf(u) == get_budget_underuse_recommendations(u, 1)

TransactionsOf(u) ==
    [t \in {x \in BagToSet(transactions) : x.user = u} |-> CopiesIn(t, transactions)]

LedgerOf(u) ==
    SelectSeq(ledger, LAMBDA e : \E g \in goals : g.id = e.goal /\ g.user = u)

\* C26: users are isolated: no sequence of operations performed as user A,
\* whichever ids and categories they name, changes a value computed for
\* another user B (the spent_amount of B's budgets, B's goal balances, B's
\* free funds, B's recommendations), B's transactions or the ledger of B's
\* goals: while only u1 acts, everything of u2 stays what it was.
C26_UsersAreIsolated ==
    /\ TransactionsOf("u2") = [t \in {TxRow("u2", 3, 0 - 500, IsolationThen)} |-> 1]
    /\ LedgerOf("u2") = <<IsolationEntry>>
    /\ SpentOf("u2") = [b \in {IsolationBudget} |-> 500]
    /\ BalancesOf("u2") = [g \in {IsolationGoal} |-> 3]
    /\ FreeFundsOf("u2")[IsolationThen] = 0 - 503
    /\ FreeFundsOf("u2")[IsolationNow] = 0
    /\ RecommendationsOf("u2") = {<<[category |-> 3, suggested_amount |-> 150000]>>}

\* u1 was refused a request naming a row of u2 while u1 has a transaction
\* and a budget in u2's category and a goal with a deposit of their own
C26_Witness ==
    /\ result = NOT_FOUND
    /\ \E t \in BagToSet(transactions) : t.user = "u1" /\ t.category = 3
    /\ \E b \in budgets : b.user = "u1" /\ b.category = 3
    /\ \E g \in goals : g.user = "u1" /\ get_goal_balance("u1", g.id) = 3

\* C27: every stored record that references a category references a
\* category owned by the record's own user: budget.category.user ==
\* budget.user for every budget and transaction.category.user ==
\* transaction.user for every transaction, in every state reachable through
\* the REST and bot entry points.
C27_CategoryOwnedByRecordUser ==
    /\ \A b \in budgets : Category(b.category).user = b.user
    /\ \A t \in BagToSet(transactions) : Category(t.category).user = t.user

\* the current-month budgets of the user and category
CurrentMonthBudgets(u, cid) ==
    {b \in budgets :
        /\ b.user = u /\ b.category = cid
        /\ b.start_date = MkDate(YearOf(today), MonthOf(today), 1)
        /\ b.end_date = LastDayOfMonth(YearOf(today), MonthOf(today))}

\* C28: in the bot's budget dialog, when the user picks a category to add a
\* budget for and then sends a valid positive amount, the budget created or
\* updated is the current-month budget of the picked category, whatever
\* dialogs were started and abandoned before (no other budget changes), and
\* after the amount has been applied waiting_for_budget_amount,
\* budget_category_id and editing_budget_id are all cleared.
C28_AmountGoesToPickedCategory ==
    [][\A a \in DialogAmounts \ {0}, cid \in CategoryIds :
          (user_data["u1"].budget_category_id = cid /\ handle_text_message("u1", a)) =>
              /\ \E b \in CurrentMonthBudgets("u1", cid)' : b.amount = a
              /\ \A b \in budgets : b.category # cid => b \in budgets'
              /\ user_data'["u1"] = EmptyUserData]_vars

\* the number of stored transactions that carry the entered amount a
CreatedFor(a) ==
    BagCardinality([t \in {x \in BagToSet(transactions) : Abs(x.amount) = a} |->
                       CopiesIn(t, transactions)])

\* a returning selection callback created a transaction only while an
\* amount was pending, and then the amount and the flag are cleared
C29_SelectionStep ==
    \A h \in BagToSet(pending) :
        CategorySelectionReturns(h) =>
            IF transactions' # transactions
            THEN /\ user_data["u1"].awaiting_category
                 /\ user_data["u1"].current_amount # None
                 /\ user_data'["u1"].current_amount = None
                 /\ ~user_data'["u1"].awaiting_category
            ELSE UNCHANGED user_data

MonthExpenses(b) ==
    SumOfAbs({t \in TxOfMonth(b.user, today) : t.category = b.category /\ t.amount < 0})

\* C30: every monthly budget a bot dialog creates for the current month
\* covers the whole calendar month (start_date the first day, end_date the
\* last day), so that an expense dated on any day of the month, the 29th to
\* the 31st included, is counted in its spent_amount; the budget-amount
\* dialog and the limit dialog produce the same period.
C30_WholeMonthCounted ==
    \A b \in budgets :
        /\ b.start_date = MkDate(YearOf(today), MonthOf(today), 1)
        /\ b.end_date = LastDayOfMonth(YearOf(today), MonthOf(today))
        /\ spent_amount(b) = MonthExpenses(b)

====
